---- MODULE Spec2Model ----
(***************************************************************************)
(* A state-machine model of the stock-tools price cache: the SQLite store  *)
(* (database.py), the incremental updater (data_updater.py), the TPEX      *)
(* updater (tpex_updater.py) and the symbol resolver of the correlation    *)
(* engine (correlation_engine.py).                                         *)
(*                                                                         *)
(* Representation.                                                         *)
(*  - A Python str is a sequence of one-character strings, so that         *)
(*    str.endswith and str.replace are computed, not assumed.              *)
(*  - A datetime is [day, frac]: the calendar day as an integer and        *)
(*    whether the time of day is after 00:00.  strftime('%Y-%m-%d') keeps  *)
(*    the day only; strptime and pd.to_datetime give 00:00 of that day.    *)
(*    An ISO date string is modelled by its day number: the order of the   *)
(*    strings (SQL MAX, ORDER BY, <) is the order of the days.             *)
(*  - A table is a bag of rows, so a duplicated row would be visible.      *)
(*  - Optional values (None, SQL NULL) are <<>>; a present value v of an   *)
(*    optional datetime or date is <<v>>.  A str result that may be None   *)
(*    is the str, and <<>> (which is also the empty str, equally falsy).   *)
(***************************************************************************)
EXTENDS Integers, Sequences, FiniteSets, Bags, TLC

VARIABLES
    stock_prices,   \* table stock_prices: bag of [symbol, date, close_price, source]
    stock_list,     \* table stock_list: bag of [symbol, name, market, last_update]
    now,            \* the wall clock, datetime.now()
    history,        \* the provider's daily closes: [symbol -> set of [date, Close]]
    ret,            \* the last call or provider event: the operation, its arguments,
                    \* its result and the provider calls it made
    buttons,        \* the state of the four action buttons of the window
    threads         \* the worker threads that are alive: bag of [target, symbol, pc]

vars == <<stock_prices, stock_list, now, history, ret, buttons, threads>>

\* the four action buttons of the window, in the order the handlers set them
ButtonOrder == <<"update_sample_btn", "update_all_btn", "update_tpex_btn", "analyze_btn">>

Buttons == {ButtonOrder[i] : i \in DOMAIN ButtonOrder}

\* tk.NORMAL on every button: the window after create_widgets
AllNormal == [b \in Buttons |-> "normal"]

\* tk.DISABLED on every button
AllDisabled == [b \in Buttons |-> "disabled"]

----------------------------------------------------------------------------
\* Bounds of the model

\* the first day of the clock
Day0 == 1000
\* the number of days the clock may advance
MaxDays == 1
\* the largest n asked of get_stock_prices in the read checks
MaxN == 3

Prices == {10, 11}
Names == {"A", "B"}
NaN == 0 - 1

----------------------------------------------------------------------------
\* Python str

TW  == <<".", "T", "W">>
TWO == <<".", "T", "W", "O">>
Code1 == <<"1">>

EndsWith(s, suffix) ==
    /\ Len(s) >= Len(suffix)
    /\ SubSeq(s, Len(s) - Len(suffix) + 1, Len(s)) = suffix

StartsWith(s, prefix) ==
    /\ Len(s) >= Len(prefix)
    /\ SubSeq(s, 1, Len(prefix)) = prefix

\* str.replace(old, new): every non-overlapping occurrence, left to right
RECURSIVE Replace(_, _, _)
Replace(s, old, new) ==
    IF s = <<>> THEN <<>>
    ELSE IF StartsWith(s, old)
         THEN new \o Replace(SubSeq(s, Len(old) + 1, Len(s)), old, new)
         ELSE <<Head(s)>> \o Replace(Tail(s), old, new)

----------------------------------------------------------------------------
\* datetime

Dt(day, frac) == [day |-> day, frac |-> frac]
DtLE(a, b) == a.day < b.day \/ (a.day = b.day /\ (a.frac => b.frac))
DtGE(a, b) == DtLE(b, a)
DtLT(a, b) == ~DtLE(b, a)
AddDays(dt, n) == Dt(dt.day + n, dt.frac)
strftime(dt) == dt.day
strptime(date) == Dt(date, FALSE)

----------------------------------------------------------------------------
\* database.py: StockDatabase

PriceRow(symbol, date, close_price, source) ==
    [symbol |-> symbol, date |-> date, close_price |-> close_price, source |-> source]

ListRow(symbol, name, market, last_update) ==
    [symbol |-> symbol, name |-> name, market |-> market, last_update |-> last_update]

\* the rows of a table that satisfy a WHERE clause on the symbol column
WhereSymbol(table, symbol) ==
    [r \in {x \in DOMAIN table : x.symbol = symbol} |-> table[r]]

\* line 93 as a plain INSERT on a table without the UNIQUE constraint
PlainInsert(table, row) == table (+) SetToBag({row})

\* INSERT OR REPLACE under UNIQUE(symbol, date): the conflicting rows are
\* deleted, then the new row is inserted
InsertOrReplace(table, row) ==
    LET kept == {r \in DOMAIN table : ~(r.symbol = row.symbol /\ r.date = row.date)}
    IN  [r \in kept |-> table[r]] (+) SetToBag({row})

\* one iteration of the loop of insert_stock_prices: an execute that raises
\* (a Close that is NaN is stored as NULL and breaks NOT NULL) is printed
\* and the row skipped
InsertOne(table, symbol, point, source) ==
    IF point.Close = NaN
    THEN table
    ELSE InsertOrReplace(table, PriceRow(symbol, strftime(point.date), point.Close, source))

\* lines 90-97 without the try: the first execute that raises ends the loop
\* and the rows after it are not written
RECURSIVE insert_stock_prices_aborting(_, _, _, _)
insert_stock_prices_aborting(table, symbol, df, source) ==
    IF df = <<>> \/ Head(df).Close = NaN THEN table
    ELSE insert_stock_prices_aborting(InsertOne(table, symbol, Head(df), source),
                                      symbol, Tail(df), source)

\* insert_stock_prices(symbol, df, source): df is the sequence of its rows
RECURSIVE insert_stock_prices(_, _, _, _)
insert_stock_prices(table, symbol, df, source) ==
    IF df = <<>> THEN table
    ELSE insert_stock_prices(InsertOne(table, symbol, Head(df), source),
                             symbol, Tail(df), source)

\* ORDER BY date DESC over a bag of rows
RECURSIVE OrderByDateDesc(_)
OrderByDateDesc(rows) ==
    IF BagToSet(rows) = {} THEN <<>>
    ELSE LET r == CHOOSE x \in BagToSet(rows) :
                      \A y \in BagToSet(rows) : y.date <= x.date
         IN  <<r>> \o OrderByDateDesc(rows (-) SetToBag({r}))

\* LIMIT n
Limit(rows, n) == SubSeq(rows, 1, IF n < Len(rows) THEN n ELSE Len(rows))

\* DataFrame.sort_index(): ascending by the date index
RECURSIVE InsertSorted(_, _)
InsertSorted(df, e) ==
    IF df = <<>> THEN <<e>>
    ELSE IF DtLT(e.date, Head(df).date)
         THEN <<e>> \o df
         ELSE <<Head(df)>> \o InsertSorted(Tail(df), e)

RECURSIVE sort_index(_)
sort_index(df) ==
    IF df = <<>> THEN <<>>
    ELSE InsertSorted(sort_index(Tail(df)), Head(df))

\* the query result without the final sort_index
LatestFirst(table, symbol, days) ==
    LET q == Limit(OrderByDateDesc(WhereSymbol(table, symbol)), days)
    IN  [i \in 1..Len(q) |-> [date |-> strptime(q[i].date), close_price |-> q[i].close_price]]

\* get_stock_prices without line 127, df.sort_index()
get_stock_prices_unsorted(table, symbol, days) ==
    LatestFirst(table, symbol, days)

\* get_stock_prices(symbol, days): the empty DataFrame is <<>>
get_stock_prices(table, symbol, days) ==
    sort_index(LatestFirst(table, symbol, days))

\* get_latest_date(symbol): <<>> for None
get_latest_date(table, symbol) ==
    LET dates == {r.date : r \in BagToSet(WhereSymbol(table, symbol))}
    IN  IF dates = {} THEN <<>>
        ELSE <<strptime(CHOOSE d \in dates : \A e \in dates : e <= d)>>

\* lines 161-164 as INSERT OR REPLACE: the row of the symbol is written anew
add_stock_to_list_replacing(table, symbol, name, market) ==
    [r \in {x \in DOMAIN table : x.symbol # symbol} |-> table[r]]
       (+) SetToBag({ListRow(symbol, name, market, <<>>)})

\* add_stock_to_list: INSERT OR IGNORE under PRIMARY KEY(symbol)
add_stock_to_list(table, symbol, name, market) ==
    IF \E r \in DOMAIN table : r.symbol = symbol
    THEN table
    ELSE table (+) SetToBag({ListRow(symbol, name, market, <<>>)})

\* lines 187-189 without the WHERE clause: every record gets the date
update_last_update_every_record(table, symbol, date) ==
    LET RECURSIVE Build(_)
        Build(rows) ==
            IF rows = {} THEN EmptyBag
            ELSE LET r == CHOOSE x \in rows : TRUE
                 IN  Build(rows \ {r})
                        (+) [x \in {ListRow(r.symbol, r.name, r.market, <<strftime(date)>>)}
                               |-> table[r]]
    IN  Build(DOMAIN table)

\* update_last_update: UPDATE stock_list SET last_update = ? WHERE symbol = ?
update_last_update(table, symbol, date) ==
    LET Upd(r) == IF r.symbol = symbol
                  THEN ListRow(r.symbol, r.name, r.market, <<strftime(date)>>)
                  ELSE r
        RECURSIVE Build(_)
        Build(rows) ==
            IF rows = {} THEN EmptyBag
            ELSE LET r == CHOOSE x \in rows : TRUE
                 IN  Build(rows \ {r}) (+) [x \in {Upd(r)} |-> table[r]]
    IN  Build(DOMAIN table)

----------------------------------------------------------------------------
\* The external provider (yfinance) as update_stock sees it

\* default of the parameter days of update_stock, the value every caller passes
DefaultDays == 120
\* the extra days of the first fetch of a symbol
InitialMargin == 60

StockSymbols == {Code1 \o TW, Code1 \o TWO}
\* the symbols the provider knows
Listed == {Code1 \o TW}
DaysArgs == {DefaultDays, DefaultDays - 1}
ProviderCloses == {10, NaN}

\* a set of dated points as a sequence ascending by date
RECURSIVE Ascending(_)
Ascending(points) ==
    IF points = {} THEN <<>>
    ELSE LET p == CHOOSE x \in points : \A y \in points : x.date <= y.date
         IN  <<p>> \o Ascending(points \ {p})

\* Ticker.history(start, end): the daily bars stamped 00:00 of their day
\* that lie in [start, end]
TickerHistory(symbol, start_date, end_date) ==
    LET inrange == {p \in history[symbol] :
                       /\ DtLE(start_date, strptime(p.date))
                       /\ DtLE(strptime(p.date), end_date)}
        bars == Ascending(inrange)
    IN  [i \in 1..Len(bars) |-> [date |-> strptime(bars[i].date), Close |-> bars[i].Close]]

----------------------------------------------------------------------------
\* data_updater.py: DataUpdater

\* fetch_stock_data: None (<<>>) when the provider raises or has nothing
fetch_stock_data(symbol, start_date, end_date, raises) ==
    IF raises THEN <<>> ELSE TickerHistory(symbol, start_date, end_date)

\* line 118: the first fetch of a symbol starts days + 60 days back
InitialStart(end_date, days) == AddDays(end_date, 0 - (days + InitialMargin))

\* line 111 starting at the latest stored date itself
IncrementalStartSameDay(latest_date) == AddDays(latest_date, 0)

\* line 111: an incremental fetch starts the day after the latest stored date
IncrementalStart(latest_date) == AddDays(latest_date, 1)

\* update_stock, lines 104-118: the start of the fetch window
FetchStart(latest_date, end_date, days) ==
    IF latest_date # <<>>
    THEN IncrementalStart(latest_date[1])
    ELSE InitialStart(end_date, days)

\* update_stock, line 114: nothing to fetch
UpToDate(latest_date, end_date) ==
    /\ latest_date # <<>>
    /\ DtGE(IncrementalStart(latest_date[1]), end_date)

\* the record of a call of update_stock: fetch holds the window asked of the
\* provider, if any, and provider_raised whether that call raised
UpdateRet(symbol, days, result, fetch, provider_raised) ==
    [op |-> "update_stock", symbol |-> symbol, days |-> days,
     result |-> result, fetch |-> fetch, provider_raised |-> provider_raised]

\* lines 126-130 writing the first fetched row only
StoreFetchedHeadOnly(symbol, df, end_date) ==
    /\ stock_prices' = insert_stock_prices(stock_prices, symbol, <<Head(df)>>, "TWSE")
    /\ stock_list' = update_last_update(stock_list, symbol, end_date)

\* lines 126-130: what update_stock writes after a fetch that gave df
StoreFetched(symbol, df, end_date) ==
    /\ stock_prices' = insert_stock_prices(stock_prices, symbol, df, "TWSE")
    /\ stock_list' = update_last_update(stock_list, symbol, end_date)

\* lines 123-124 setting the last-update marker before giving up
FetchFailedMarksUpdate(symbol, days, window, raises) ==
    /\ ret' = UpdateRet(symbol, days, FALSE, <<window>>, raises)
    /\ stock_list' = update_last_update(stock_list, symbol, window.end)
    /\ UNCHANGED stock_prices

\* lines 123-124: what update_stock does when the fetch gave nothing
FetchFailed(symbol, days, window, raises) ==
    /\ ret' = UpdateRet(symbol, days, FALSE, <<window>>, raises)
    /\ UNCHANGED <<stock_prices, stock_list>>

\* update_stock(symbol, days); raises: whether the provider call raises
UpdateStock(symbol, days, raises) ==
    LET latest_date == get_latest_date(stock_prices, symbol)
        end_date == now
        start_date == FetchStart(latest_date, end_date, days)
        window == [symbol |-> symbol, start |-> start_date, end |-> end_date]
        df == fetch_stock_data(symbol, start_date, end_date, raises)
    IN  /\ IF UpToDate(latest_date, end_date)
           THEN /\ ret' = UpdateRet(symbol, days, TRUE, <<>>, FALSE)
                /\ UNCHANGED <<stock_prices, stock_list>>
           ELSE IF df = <<>>
                THEN FetchFailed(symbol, days, window, raises)
                ELSE /\ StoreFetched(symbol, df, end_date)
                     /\ ret' = UpdateRet(symbol, days, TRUE, <<window>>, FALSE)
        /\ UNCHANGED <<now, history, buttons, threads>>

----------------------------------------------------------------------------
\* tpex_updater.py: TPEXUpdater

TpexDates == {Dt(Day0 - 1, FALSE), Dt(Day0, TRUE)}

Quote(symbol, name, close_price) ==
    [symbol |-> symbol, name |-> name, close_price |-> close_price]

\* what fetch_and_parse may give for a date: None or nothing (<<>>), or quotes
TpexFeeds ==
    {<<>>}
    \cup {<<Quote(Code1, "A", 11)>>}
    \cup {<<Quote(Code1, "B", 11), Quote(Code1, "B", 10)>>}

\* the loop of update_single_date over the quotes of a date
RECURSIVE StoreQuotes(_, _, _)
StoreQuotes(tables, date, data) ==
    IF data = <<>> THEN tables
    ELSE LET stock == Head(data)
             df == <<[date |-> date, Close |-> stock.close_price]>>
         IN  StoreQuotes(
               [prices |-> insert_stock_prices(tables.prices, stock.symbol, df, "TPEX"),
                list   |-> add_stock_to_list(tables.list, stock.symbol, stock.name, "TPEX"),
                count  |-> tables.count + 1],
               date, Tail(data))

\* update_single_date(date); data: what the fetcher gives for the date
TpexUpdateSingleDate(date, data) ==
    LET done == StoreQuotes([prices |-> stock_prices, list |-> stock_list, count |-> 0],
                            date, data)
    IN  /\ stock_prices' = done.prices
        /\ stock_list' = done.list
        /\ ret' = [op |-> "update_single_date", date |-> date, data |-> data,
                   result |-> done.count]
        /\ UNCHANGED <<now, history, buttons, threads>>

----------------------------------------------------------------------------
\* The environment: the clock and the provider's history

\* time passes: from 00:00 into the day, and from the day to the next 00:00;
\* ret keeps the last call
Tick ==
    /\ now.day < Day0 + MaxDays \/ ~now.frac
    /\ now' = IF now.frac THEN Dt(now.day + 1, FALSE) ELSE Dt(now.day, TRUE)
    /\ UNCHANGED <<stock_prices, stock_list, history, ret, buttons, threads>>

\* the provider publishes the bar of the current day, once the day has begun
Publish(symbol, close) ==
    /\ now.frac
    /\ \A p \in history[symbol] : p.date # now.day
    /\ history' = [history EXCEPT ![symbol] = @ \cup {[date |-> now.day, Close |-> close]}]
    /\ ret' = [op |-> "publish"]
    /\ UNCHANGED <<stock_prices, stock_list, now, buttons, threads>>

\* a call of add_stock_to_list on the store
AddStockToList(symbol, name, market) ==
    /\ stock_list' = add_stock_to_list(stock_list, symbol, name, market)
    /\ ret' = [op |-> "add_stock_to_list", symbol |-> symbol, name |-> name,
               market |-> market]
    /\ UNCHANGED <<stock_prices, now, history, buttons, threads>>

\* the history of the listed symbol before the clock starts
BaseHistory ==
    {[date |-> Day0 - (DefaultDays + InitialMargin + 1), Close |-> 10],
     [date |-> Day0 - (DefaultDays + InitialMargin), Close |-> 11],
     [date |-> Day0 - 1, Close |-> 10]}

Init ==
    /\ stock_prices = EmptyBag
    /\ stock_list = EmptyBag
    /\ now = Dt(Day0, FALSE)
    /\ history = [s \in StockSymbols |-> IF s \in Listed THEN BaseHistory ELSE {}]
    /\ ret = [op |-> "init"]
    /\ buttons = AllNormal
    /\ threads = EmptyBag

Next ==
    \/ \E s \in StockSymbols, d \in DaysArgs, raises \in BOOLEAN : UpdateStock(s, d, raises)
    \/ \E date \in TpexDates, data \in TpexFeeds : TpexUpdateSingleDate(date, data)
    \/ \E s \in Listed : AddStockToList(s, "A", "TW")
    \/ Tick
    \/ \E s \in Listed, c \in ProviderCloses : Publish(s, c)

Spec == Init /\ [][Next]_vars

----------------------------------------------------------------------------
\* correlation_engine.py: CorrelationEngine.get_full_symbol

\* the days of the cache probe get_stock_prices(symbol, days=5)
ProbeDays == 5

ProbeOutcomes == {"data", "empty", "raise"}

\* line 44: symbol.replace('.TW', '').replace('.TWO', '')
base_symbol(symbol) == Replace(Replace(symbol, TW, <<>>), TWO, <<>>)

\* lines 39-40, 48-49, 54-55: the cache holds a point of the symbol
InCache(table, symbol) == get_stock_prices(table, symbol, ProbeDays) # <<>>

\* a provider probe whose exception escapes
ProbeNoExcept(outcome) ==
    [hit |-> outcome = "data", raised |-> outcome = "raise"]

\* lines 59-65, 67-73: try: Ticker(s).history(period="5d") ... except: pass
TryProbe(outcome) ==
    [hit |-> outcome = "data", raised |-> FALSE]

Resolved(result, probes, raised) ==
    [result |-> result, probes |-> probes, raised |-> raised]

\* lines 47-56 with the venues tried in the other order
CacheLookupSecondaryFirst(table, tw_symbol, two_symbol) ==
    IF InCache(table, two_symbol) THEN two_symbol
    ELSE IF InCache(table, tw_symbol) THEN tw_symbol
    ELSE <<>>

\* lines 47-56: .TW in the cache, then .TWO in the cache; <<>> when neither
CacheLookup(table, tw_symbol, two_symbol) ==
    IF InCache(table, tw_symbol) THEN tw_symbol
    ELSE IF InCache(table, two_symbol) THEN two_symbol
    ELSE <<>>

\* lines 58-76: the provider probes, .TW then .TWO, then None
ProviderLookup(tw_symbol, two_symbol, p1, p2) ==
    LET first == TryProbe(p1)
        second == TryProbe(p2)
    IN  IF first.raised THEN Resolved(<<>>, <<tw_symbol>>, TRUE)
        ELSE IF first.hit THEN Resolved(tw_symbol, <<tw_symbol>>, FALSE)
        ELSE IF second.raised THEN Resolved(<<>>, <<tw_symbol, two_symbol>>, TRUE)
        ELSE IF second.hit THEN Resolved(two_symbol, <<tw_symbol, two_symbol>>, FALSE)
        ELSE Resolved(<<>>, <<tw_symbol, two_symbol>>, FALSE)

\* get_full_symbol(symbol); p1, p2: what the provider does when probed for
\* the .TW and the .TWO candidate
get_full_symbol(table, symbol, p1, p2) ==
    LET suffixed == EndsWith(symbol, TW) \/ EndsWith(symbol, TWO)
        base == base_symbol(symbol)
        tw_symbol == base \o TW
        two_symbol == base \o TWO
        cached == CacheLookup(table, tw_symbol, two_symbol)
    IN  IF suffixed /\ InCache(table, symbol) THEN Resolved(symbol, <<>>, FALSE)
        ELSE IF cached # <<>> THEN Resolved(cached, <<>>, FALSE)
        ELSE ProviderLookup(tw_symbol, two_symbol, p1, p2)

ResolveRet(symbol, p1, p2, r) ==
    [op |-> "get_full_symbol", symbol |-> symbol, p1 |-> p1, p2 |-> p2,
     result |-> r.result, probes |-> r.probes, raised |-> r.raised]

\* a get_full_symbol that registers the symbol it resolved
GetFullSymbolRegistering(symbol, p1, p2) ==
    LET r == get_full_symbol(stock_prices, symbol, p1, p2)
    IN  /\ ret' = ResolveRet(symbol, p1, p2, r)
        /\ stock_list' = IF r.result = <<>> THEN stock_list
                         ELSE add_stock_to_list(stock_list, r.result, "", "TW")
        /\ UNCHANGED <<stock_prices, now, history, buttons, threads>>

\* a call of get_full_symbol
GetFullSymbol(symbol, p1, p2) ==
    /\ ret' = ResolveRet(symbol, p1, p2, get_full_symbol(stock_prices, symbol, p1, p2))
    /\ UNCHANGED <<stock_prices, stock_list, now, history, buttons, threads>>

\* a call of insert_stock_prices on the store
InsertStockPrices(symbol, df, source) ==
    /\ stock_prices' = insert_stock_prices(stock_prices, symbol, df, source)
    /\ ret' = [op |-> "insert_stock_prices", symbol |-> symbol, df |-> df,
               source |-> source]
    /\ UNCHANGED <<stock_list, now, history, buttons, threads>>

Code1O == <<"1", "O">>
ResolveCodes == {Code1, Code1 \o TW, Code1 \o TWO, Code1O}
CachedSymbols == {Code1 \o TW, Code1 \o TWO, Code1O \o TW, Code1}
CachedFrames == {<<[date |-> Dt(Day0, FALSE), Close |-> 10]>>}

NextResolve ==
    \/ \E s \in CachedSymbols, df \in CachedFrames : InsertStockPrices(s, df, "TWSE")
    \/ \E s \in Listed : AddStockToList(s, "A", "TW")
    \/ \E s \in ResolveCodes, p1 \in ProbeOutcomes, p2 \in ProbeOutcomes :
          GetFullSymbol(s, p1, p2)

SpecResolve == Init /\ [][NextResolve]_vars

----------------------------------------------------------------------------
\* Vocabulary of the properties

\* the symbols the model stores points of
AllSymbols == StockSymbols \cup CachedSymbols

\* the number of rows of a table with the key (symbol, date)
KeyCount(table, symbol, date) ==
    BagCardinality([r \in {x \in DOMAIN table : x.symbol = symbol /\ x.date = date}
                      |-> table[r]])

\* the number of rows of a table for a symbol
SymbolCount(table, symbol) == BagCardinality(WhereSymbol(table, symbol))

\* the table holds a point of the symbol
HasPoint(table, symbol) == \E r \in DOMAIN table : r.symbol = symbol

\* the code carries a venue suffix
Suffixed(code) == EndsWith(code, TW) \/ EndsWith(code, TWO)

\* the code without the venue suffix it ends with
StripSuffix(code) ==
    IF EndsWith(code, TWO) THEN SubSeq(code, 1, Len(code) - Len(TWO))
    ELSE IF EndsWith(code, TW) THEN SubSeq(code, 1, Len(code) - Len(TW))
    ELSE code

Min(a, b) == IF a < b THEN a ELSE b

----------------------------------------------------------------------------
\* Properties of the store

\* C1: after every write by either updater there is exactly one row per
\* stored (symbol, date); a quote written by update_single_date for a key
\* leaves that key with the close written last, and the number of rows of the
\* symbol grows by one if the key was new and not at all if it was stored.
C1_UpsertKeepsOneRowPerKey ==
    [][ /\ \A r \in DOMAIN stock_prices' :
              KeyCount(stock_prices', r.symbol, r.date) = 1
        /\ \A r \in DOMAIN stock_prices :
              KeyCount(stock_prices', r.symbol, r.date) = 1
        /\ (ret' # ret /\ ret'.op = "update_single_date") =>
              \A i \in 1..Len(ret'.data) :
                 LET q == ret'.data[i]
                     d == strftime(ret'.date)
                     last == \A j \in (i + 1)..Len(ret'.data) :
                                ret'.data[j].symbol # q.symbol
                 IN  /\ last => \E r \in DOMAIN stock_prices' :
                                    /\ r.symbol = q.symbol
                                    /\ r.date = d
                                    /\ r.close_price = q.close_price
                     /\ SymbolCount(stock_prices', q.symbol)
                          = SymbolCount(stock_prices, q.symbol)
                            + (IF KeyCount(stock_prices, q.symbol, d) > 0 THEN 0 ELSE 1)
      ]_vars

\* C1 witness: update_single_date has overwritten the close of a stored key
\* while the incremental updater has rows of its own in the store
C1_Witness ==
    /\ ret.op = "update_single_date"
    /\ Len(ret.data) = 2
    /\ \E r \in DOMAIN stock_prices :
          r.symbol = Code1 /\ r.date = strftime(ret.date) /\ r.close_price = 10
    /\ SymbolCount(stock_prices, Code1) = 2
    /\ \E r \in DOMAIN stock_prices : r.source = "TWSE"

\* C2: get_stock_prices(symbol, n) gives min(n, stored) points, all of them
\* stored points of the symbol, in strictly ascending date order, and no
\* stored point left out is later than one given.
C2_TailIsLatestAscending ==
    \A s \in AllSymbols, n \in 1..MaxN :
       LET df == get_stock_prices(stock_prices, s, n)
           rows == DOMAIN WhereSymbol(stock_prices, s)
           given == {[symbol |-> s, date |-> strftime(df[i].date),
                      close_price |-> df[i].close_price] : i \in 1..Len(df)}
           stored == {[symbol |-> r.symbol, date |-> r.date,
                       close_price |-> r.close_price] : r \in rows}
       IN  /\ Len(df) = Min(n, SymbolCount(stock_prices, s))
           /\ \A i \in 1..(Len(df) - 1) : DtLT(df[i].date, df[i + 1].date)
           /\ \A i \in 1..Len(df) : ~df[i].date.frac
           /\ given \subseteq stored
           /\ \A r \in stored \ given : \A g \in given : r.date < g.date

\* C2 witness: the points of a symbol were inserted latest date first, and a
\* read of fewer points than are stored gives the latest only
C2_Witness ==
    /\ ret.op = "update_single_date"
    /\ ret.date = Dt(Day0 - 1, FALSE)
    /\ SymbolCount(stock_prices, Code1) = 2
    /\ Len(get_stock_prices(stock_prices, Code1, 1)) = 1
    /\ get_stock_prices(stock_prices, Code1, 1)[1].date = Dt(Day0, FALSE)
    /\ SymbolCount(stock_prices, Code1 \o TW) = MaxN
    /\ get_stock_prices(stock_prices, Code1 \o TWO, 1) = <<>>

----------------------------------------------------------------------------
\* Properties of get_full_symbol

\* C3: for a bare code the result is the first of: .TW cached, .TWO cached,
\* .TW known to the provider, .TWO known to the provider, else None; the
\* provider is not contacted on a cache hit, and is asked for .TW before .TWO.
C3_BareCodeResolutionOrder ==
    (ret.op = "get_full_symbol" /\ ~Suffixed(ret.symbol)) =>
       LET tw == ret.symbol \o TW
           two == ret.symbol \o TWO
           hit == HasPoint(stock_prices, tw) \/ HasPoint(stock_prices, two)
       IN  /\ ret.result =
                 IF HasPoint(stock_prices, tw) THEN tw
                 ELSE IF HasPoint(stock_prices, two) THEN two
                 ELSE IF ret.p1 = "data" THEN tw
                 ELSE IF ret.p2 = "data" THEN two
                 ELSE <<>>
           /\ hit => ret.probes = <<>>
           /\ ~hit => ret.probes = IF ret.p1 = "data" THEN <<tw>> ELSE <<tw, two>>

\* C3 witness: only the .TWO symbol is cached and the provider knows the .TW
\* symbol; the bare code resolves to the .TWO symbol
C3_Witness ==
    /\ ret.op = "get_full_symbol"
    /\ ret.symbol = Code1
    /\ ~HasPoint(stock_prices, Code1 \o TW)
    /\ HasPoint(stock_prices, Code1 \o TWO)
    /\ ret.p1 = "data"
    /\ ret.result = Code1 \o TWO

\* C4: a suffixed code with no cached points of its own resolves to its base
\* code + .TW when that is cached, else to its base code + .TWO when that is.
C4_SuffixedFallsBackToBase ==
    (ret.op = "get_full_symbol" /\ Suffixed(ret.symbol)
       /\ ~HasPoint(stock_prices, ret.symbol)) =>
       LET base == StripSuffix(ret.symbol)
       IN  /\ HasPoint(stock_prices, base \o TW) => ret.result = base \o TW
           /\ (~HasPoint(stock_prices, base \o TW) /\ HasPoint(stock_prices, base \o TWO))
                 => ret.result = base \o TWO

\* C5: a call of get_full_symbol leaves the price rows and the registry as
\* they were, whatever the code and whatever the provider does.
C5_ResolveWritesNothing ==
    [][ ret'.op = "get_full_symbol" =>
           (stock_prices' = stock_prices /\ stock_list' = stock_list) ]_vars

\* C5 witness: a call that went as far as the provider and resolved, over a
\* store with rows and a registered symbol
C5_Witness ==
    /\ ret.op = "get_full_symbol"
    /\ ret.probes # <<>>
    /\ ret.result # <<>>
    /\ stock_prices # EmptyBag
    /\ stock_list # EmptyBag

\* C6: a provider probe that raises is not propagated and counts as not
\* found: .TW raising and .TWO found gives the .TWO candidate, both failing
\* gives None, and the result is that of the same call with "empty" in place
\* of "raise".
C6_ProbeFailureSwallowed ==
    ret.op = "get_full_symbol" =>
       LET quiet(p) == IF p = "raise" THEN "empty" ELSE p
       IN  /\ ~ret.raised
           /\ ret.result = get_full_symbol(stock_prices, ret.symbol,
                                           quiet(ret.p1), quiet(ret.p2)).result
           /\ (ret.probes # <<>> /\ ret.p1 = "raise" /\ ret.p2 = "data") =>
                 /\ Len(ret.probes) = 2
                 /\ ret.result = ret.probes[2]
                 /\ EndsWith(ret.result, TWO)
           /\ (ret.probes # <<>> /\ ret.p1 # "data" /\ ret.p2 # "data") =>
                 ret.result = <<>>

\* C6 witness: the .TW probe raised and the .TWO probe found data
C6_Witness ==
    /\ ret.op = "get_full_symbol"
    /\ ret.symbol = Code1
    /\ ret.p1 = "raise"
    /\ ret.p2 = "data"
    /\ ret.probes = <<Code1 \o TW, Code1 \o TWO>>
    /\ ret.result = Code1 \o TWO

----------------------------------------------------------------------------
\* Properties of update_stock

\* ret names the last call: a step that leaves ret as it was writes nothing
\* to the store, so the steps with ret' # ret are all the calls that matter.
RetTracksWrites ==
    [][ ret' = ret => (stock_prices' = stock_prices /\ stock_list' = stock_list) ]_vars

\* the stored dates of a symbol
StoredDates(table, symbol) == {r.date : r \in DOMAIN WhereSymbol(table, symbol)}

\* the greatest day of a non-empty set of days
MaxDay(days) == CHOOSE d \in days : \A e \in days : e <= d

\* the step is a call of update_stock
UpdateStockStep == ret' # ret /\ ret'.op = "update_stock"

\* the rows of get_stock_prices are strictly ascending by date
AscendingDates(df) == \A i \in 1..(Len(df) - 1) : DtLT(df[i].date, df[i + 1].date)

\* C7: with a latest stored date L the window starts at 00:00 of L + 1 day,
\* and when that is not before now the call asks the provider nothing,
\* writes nothing and returns True; with no stored point the window starts
\* days + 60 days before now; every window asked of the provider ends now.
C7_FetchWindow ==
    [][ UpdateStockStep =>
          LET dates == StoredDates(stock_prices, ret'.symbol)
              L == MaxDay(dates)
              current == L + 1 > now.day \/ (L + 1 = now.day /\ ~now.frac)
          IN  /\ (dates # {} /\ current) =>
                    /\ ret'.fetch = <<>>
                    /\ ret'.result = TRUE
                    /\ stock_prices' = stock_prices
                    /\ stock_list' = stock_list
              /\ (dates # {} /\ ~current) =>
                    ret'.fetch = <<[symbol |-> ret'.symbol,
                                    start |-> Dt(L + 1, FALSE), end |-> now]>>
              /\ dates = {} =>
                    ret'.fetch = <<[symbol |-> ret'.symbol,
                                    start |-> Dt(now.day - (ret'.days + InitialMargin), now.frac),
                                    end |-> now]>>
      ]_vars

\* C7 witness: an incremental fetch from 00:00 of the day after the latest
\* stored date up to now, later the same day, that brought data
C7_Witness ==
    /\ ret.op = "update_stock"
    /\ ret.result
    /\ ret.fetch # <<>>
    /\ ret.fetch[1].start = Dt(Day0, FALSE)
    /\ ret.fetch[1].end = Dt(Day0, TRUE)
    /\ Day0 - 1 \in StoredDates(stock_prices, ret.symbol)

\* C7 second case: the latest stored date is today, nothing is asked
C7_UpToDateReached ==
    /\ ret.op = "update_stock"
    /\ ret.result
    /\ ret.fetch = <<>>

\* C8 as stated: after a first fetch that returned True the latest stored
\* date is the end date of the window, and the dates read are ascending.
C8_LatestIsWindowEnd ==
    [][ (UpdateStockStep /\ ~HasPoint(stock_prices, ret'.symbol)
           /\ ret'.result /\ ret'.fetch # <<>>) =>
          LET latest == get_latest_date(stock_prices', ret'.symbol)
          IN  /\ latest # <<>>
              /\ latest[1].day = ret'.fetch[1].end.day
              /\ AscendingDates(get_stock_prices(stock_prices', ret'.symbol, DefaultDays))
      ]_vars

\* C8 amended: after a first fetch that returned True the latest stored date
\* is the greatest date of the fetched points that were written (a point
\* whose close is NaN is skipped; None if all were), it is not later than the
\* end of the window, and the dates read are strictly ascending.
C8_LatestIsLastFetchedPoint ==
    [][ (UpdateStockStep /\ ~HasPoint(stock_prices, ret'.symbol)
           /\ ret'.result /\ ret'.fetch # <<>>) =>
          LET w == ret'.fetch[1]
              df == TickerHistory(w.symbol, w.start, w.end)
              written == {strftime(df[i].date) : i \in {j \in 1..Len(df) : df[j].Close # NaN}}
              latest == get_latest_date(stock_prices', ret'.symbol)
          IN  /\ df # <<>>
              /\ written = {} => latest = <<>>
              /\ written # {} =>
                    /\ latest = <<Dt(MaxDay(written), FALSE)>>
                    /\ DtLE(latest[1], w.end)
              /\ StoredDates(stock_prices', ret'.symbol) = written
              /\ AscendingDates(get_stock_prices(stock_prices', ret'.symbol, DefaultDays))
      ]_vars

\* C8 witness: a first fetch returned True, stored several points, and the
\* latest stored date is before the day the window ends
C8_Witness ==
    /\ ret.op = "update_stock"
    /\ ret.result
    /\ ret.fetch # <<>>
    /\ ret.fetch[1].start.day = ret.fetch[1].end.day - (ret.days + InitialMargin)
    /\ SymbolCount(stock_prices, ret.symbol) >= 2
    /\ get_latest_date(stock_prices, ret.symbol)[1].day < ret.fetch[1].end.day

C10_FailedFetchChangesNothing ==
    [][ (UpdateStockStep /\ ret'.fetch # <<>>
           /\ (\/ ret'.provider_raised
               \/ TickerHistory(ret'.symbol, ret'.fetch[1].start, ret'.fetch[1].end) = <<>>)) =>
          /\ ret'.result = FALSE
          /\ stock_prices' = stock_prices
          /\ stock_list' = stock_list
      ]_vars

\* C10 witness: the provider raised for a registered symbol that has stored
\* points and data waiting at the provider
C10_Witness ==
    /\ ret.op = "update_stock"
    /\ ret.provider_raised
    /\ ~ret.result
    /\ TickerHistory(ret.symbol, ret.fetch[1].start, ret.fetch[1].end) # <<>>
    /\ HasPoint(stock_prices, ret.symbol)
    /\ \E r \in DOMAIN stock_list : r.symbol = ret.symbol /\ r.last_update # <<>>

\* C11: after update_stock returns True from a fetch that gave points, every
\* fetched point with a close is a stored row of the symbol and the registry
\* holds the symbol with last_update equal to the day of the run's now;
\* whoever the caller, registered symbol or not.
C11_TrueFetchMarksLastUpdate ==
    [][ (UpdateStockStep /\ ret'.result /\ ret'.fetch # <<>>) =>
          LET w == ret'.fetch[1]
              df == TickerHistory(w.symbol, w.start, w.end)
          IN  /\ \A i \in 1..Len(df) :
                    df[i].Close # NaN =>
                       \E r \in DOMAIN stock_prices' :
                          /\ r.symbol = ret'.symbol
                          /\ r.date = strftime(df[i].date)
                          /\ r.close_price = df[i].Close
              /\ \E r \in DOMAIN stock_list' :
                    r.symbol = ret'.symbol /\ r.last_update = <<strftime(now)>>
      ]_vars

\* the same for a symbol the registry held before the call: here the marker
\* is set, so the registry lacking the symbol is the only way C11 fails
C11_RegisteredMarksLastUpdate ==
    [][ (UpdateStockStep /\ ret'.result /\ ret'.fetch # <<>>
           /\ \E r \in DOMAIN stock_list : r.symbol = ret'.symbol) =>
          LET w == ret'.fetch[1]
              df == TickerHistory(w.symbol, w.start, w.end)
          IN  /\ \A i \in 1..Len(df) :
                    df[i].Close # NaN =>
                       \E r \in DOMAIN stock_prices' :
                          /\ r.symbol = ret'.symbol
                          /\ r.date = strftime(df[i].date)
                          /\ r.close_price = df[i].Close
              /\ \A r \in DOMAIN stock_list' :
                    r.symbol = ret'.symbol => r.last_update = <<strftime(now)>>
              /\ \E r \in DOMAIN stock_list' : r.symbol = ret'.symbol
      ]_vars

----------------------------------------------------------------------------
\* data_updater.py: update_stock as a function of the store, with the store
\* allowed to fail, and DataUpdater.update_all_stocks

\* the largest number of entries of the list given to update_all_stocks
MaxBatch == 3

\* what may go wrong while one symbol is processed: the provider raises, or
\* the cursor.execute of one store method raises for that symbol
StoreFaults == {"get_latest_date", "insert_stock_prices", "update_last_update",
                "add_stock_to_list"}

Env(raises, fault) == [raises |-> raises, fault |-> fault]

Outcomes == {Env(FALSE, "none"), Env(TRUE, "none")} \cup {Env(FALSE, f) : f \in StoreFaults}

\* the result of update_stock and the store it leaves; caught: an exception
\* of the store was caught on the way, by the except clause of lines 134-136
\* or by the one of insert_stock_prices (database.py 96-97)
Updated(prices, list, result, fetch, provider_raised, caught) ==
    [prices |-> prices, list |-> list, result |-> result, fetch |-> fetch,
     provider_raised |-> provider_raised, caught |-> caught]

\* lines 126-130 called with the store failing: insert_stock_prices prints
\* and skips every row whose execute raises (database.py 96-97), an
\* exception of update_last_update leaves update_stock at line 130
StoreFetchedOrFail(tables, symbol, df, end_date, window, env) ==
    LET stored == IF env.fault = "insert_stock_prices"
                  THEN tables.prices
                  ELSE insert_stock_prices(tables.prices, symbol, df, "TWSE")
    IN  IF env.fault = "update_last_update"
        THEN Updated(stored, tables.list, FALSE, <<window>>, FALSE, TRUE)
        ELSE Updated(stored, update_last_update(tables.list, symbol, end_date),
                     TRUE, <<window>>, FALSE, env.fault = "insert_stock_prices")

\* update_stock(symbol, days) on the store tables = [prices, list] at the
\* time end_date; every exception raised inside is caught at line 134 and
\* the call returns False
update_stock(tables, symbol, days, end_date, env) ==
    LET latest_date == get_latest_date(tables.prices, symbol)
        start_date == FetchStart(latest_date, end_date, days)
        window == [symbol |-> symbol, start |-> start_date, end |-> end_date]
        df == fetch_stock_data(symbol, start_date, end_date, env.raises)
    IN  IF env.fault = "get_latest_date"
        THEN Updated(tables.prices, tables.list, FALSE, <<>>, FALSE, TRUE)
        ELSE IF UpToDate(latest_date, end_date)
        THEN Updated(tables.prices, tables.list, TRUE, <<>>, FALSE, FALSE)
        ELSE IF df = <<>>
        THEN Updated(tables.prices, tables.list, FALSE, <<window>>, env.raises, FALSE)
        ELSE StoreFetchedOrFail(tables, symbol, df, end_date, window, env)

\* the calls update_all_stocks makes, in the order it makes them
Registered(symbol) == <<"add_stock_to_list", symbol>>
Attempted(symbol, result) == <<"update_stock", symbol, result>>
Slept == <<"sleep">>

\* lines 161-166 counting every symbol as a success
TallyAllSuccess(st, result) ==
    [st EXCEPT !.success_count = @ + 1]

\* lines 161-166: success_count += 1 or fail_count += 1
Tally(st, result) ==
    IF result
    THEN [st EXCEPT !.success_count = @ + 1]
    ELSE [st EXCEPT !.fail_count = @ + 1]

\* lines 169-170 sleeping after the last symbol too
DelayAfterEvery(i, total) ==
    IF i <= total THEN <<Slept>> ELSE <<>>

\* lines 169-170: if i < total: time.sleep(delay)
Delay(i, total) ==
    IF i < total THEN <<Slept>> ELSE <<>>

\* lines 158-170 giving up the batch at the first symbol that fails
LoopBodyStopAtFailure(st, i, total, item, days, end_date, env) ==
    LET symbol == item[1]
        name == item[2]
        listed == add_stock_to_list(st.list, symbol, name, "TW")
        u == update_stock([prices |-> st.prices, list |-> listed],
                          symbol, days, end_date, env)
        done == [Tally(st, u.result) EXCEPT
                    !.prices = u.prices,
                    !.list = u.list,
                    !.caught = @ \o (IF u.caught THEN <<symbol>> ELSE <<>>),
                    !.events = @ \o <<Registered(symbol), Attempted(symbol, u.result)>>
                                 \o Delay(i, total)]
    IN  IF env.fault = "add_stock_to_list" \/ ~u.result
        THEN [st EXCEPT !.raised = TRUE, !.events = @ \o <<Registered(symbol)>>]
        ELSE done

\* lines 155-170, one iteration of the loop for the i-th entry of the list:
\* an exception of add_stock_to_list is not caught and ends the call
LoopBody(st, i, total, item, days, end_date, env) ==
    LET symbol == item[1]
        name == item[2]
        listed == add_stock_to_list(st.list, symbol, name, "TW")
        u == update_stock([prices |-> st.prices, list |-> listed],
                          symbol, days, end_date, env)
        done == [Tally(st, u.result) EXCEPT
                    !.prices = u.prices,
                    !.list = u.list,
                    !.caught = @ \o (IF u.caught THEN <<symbol>> ELSE <<>>),
                    !.events = @ \o <<Registered(symbol), Attempted(symbol, u.result)>>
                                 \o Delay(i, total)]
    IN  IF env.fault = "add_stock_to_list"
        THEN [st EXCEPT !.raised = TRUE, !.events = @ \o <<Registered(symbol)>>]
        ELSE done

\* line 154: for i, (symbol, name) in enumerate(stock_list, 1)
RECURSIVE Loop(_, _, _, _, _, _)
Loop(st, i, list, days, end_date, envs) ==
    IF i > Len(list) \/ st.raised THEN st
    ELSE Loop(LoopBody(st, i, Len(list), list[i], days, end_date, envs[list[i][1]]),
              i + 1, list, days, end_date, envs)

\* lines 147-173: the loop from the counters at 0; printed is the summary of
\* line 173, which an escaping exception skips
update_all_stocks(tables, list, days, end_date, envs) ==
    LET st == Loop([prices |-> tables.prices, list |-> tables.list,
                    success_count |-> 0, fail_count |-> 0,
                    events |-> <<>>, caught |-> <<>>, raised |-> FALSE],
                   1, list, days, end_date, envs)
    IN  st @@
        [printed |-> IF st.raised THEN <<>>
                     ELSE <<[success_count |-> st.success_count,
                             fail_count |-> st.fail_count]>>,
         result |-> <<>>]

\* a call of update_all_stocks(list, days) with the default delay; envs: what
\* goes wrong for each symbol
UpdateAllStocks(list, days, envs) ==
    \E r \in {update_all_stocks([prices |-> stock_prices, list |-> stock_list],
                               list, days, now, envs)} :
        /\ stock_prices' = r.prices
        /\ stock_list' = r.list
        /\ ret' = [op |-> "update_all_stocks", stock_list |-> list, days |-> days,
                   envs |-> envs, events |-> r.events, caught |-> r.caught,
                   raised |-> r.raised, printed |-> r.printed, result |-> r.result]
        /\ UNCHANGED <<now, history, buttons, threads>>

BatchItems == {<<Code1 \o TW, "A">>, <<Code1 \o TWO, "B">>}

BatchLists == UNION {[1..n -> BatchItems] : n \in 0..MaxBatch}

\* at most one symbol of a run meets a failing provider or store
BatchEnvs ==
    {[s \in StockSymbols |-> IF s = bad THEN o ELSE Env(FALSE, "none")] :
        bad \in StockSymbols, o \in Outcomes}

NextBatch ==
    \/ \E list \in BatchLists, envs \in BatchEnvs :
          UpdateAllStocks(list, DefaultDays, envs)
    \/ \E s \in StockSymbols : AddStockToList(s, "B", "TPEX")

SpecBatch == Init /\ [][NextBatch]_vars

----------------------------------------------------------------------------
\* Properties of update_all_stocks

\* update_stock of the Spec actions is update_stock of the batch with a
\* store that does not fail
UpdateStockAgrees ==
    [][ UpdateStockStep =>
          LET u == update_stock([prices |-> stock_prices, list |-> stock_list],
                                ret'.symbol, ret'.days, now,
                                Env(ret'.provider_raised, "none"))
          IN  /\ stock_prices' = u.prices
              /\ stock_list' = u.list
              /\ ret'.result = u.result
              /\ ret'.fetch = u.fetch
      ]_vars

IsCall(e) == e # Slept
IsAttempt(e) == e[1] = "update_stock"

\* the calls of a run without the sleeps
Calls(events) == SelectSeq(events, IsCall)

\* the number of symbols a run called update_stock for
AttemptCount(events) == Len(SelectSeq(events, IsAttempt))

InRegistry(table, symbol) == \E r \in DOMAIN table : r.symbol = symbol

\* C12: the calls of a run are, for the 1st, 2nd, ... entry of the list in
\* turn, add_stock_to_list of its symbol and then update_stock of its symbol;
\* whatever update_stock returns the next entry follows, so every entry is
\* reached and, the run over, every symbol of the list is in the registry.
\* Only an exception of add_stock_to_list itself ends the run early.
C12_InOrderRegisterThenUpdate ==
    ret.op = "update_all_stocks" =>
       LET list == ret.stock_list
           n == Len(list)
           calls == Calls(ret.events)
           k == AttemptCount(ret.events)
       IN  /\ k <= n
           /\ \A i \in 1..k :
                 /\ calls[2 * i - 1] = Registered(list[i][1])
                 /\ IsAttempt(calls[2 * i])
                 /\ calls[2 * i][2] = list[i][1]
           /\ ret.raised <=> \E i \in 1..n : ret.envs[list[i][1]].fault = "add_stock_to_list"
           /\ ret.raised =>
                 /\ k < n
                 /\ calls = SubSeq(calls, 1, 2 * k) \o <<Registered(list[k + 1][1])>>
                 /\ ret.envs[list[k + 1][1]].fault = "add_stock_to_list"
           /\ ~ret.raised =>
                 /\ k = n
                 /\ Len(calls) = 2 * n
                 /\ \A i \in 1..n : InRegistry(stock_list, list[i][1])

\* C12 witness: the provider raised for an entry that is not the last, the
\* entry after it was registered and updated with success, and every symbol
\* of the list is in the registry
C12_Witness ==
    /\ ret.op = "update_all_stocks"
    /\ ~ret.raised
    /\ \E i \in 1..(Len(ret.stock_list) - 1) :
          /\ ret.envs[ret.stock_list[i][1]].raises
          /\ Calls(ret.events)[2 * i] = Attempted(ret.stock_list[i][1], FALSE)
          /\ Calls(ret.events)[2 * i + 1] = Registered(ret.stock_list[i + 1][1])
          /\ Calls(ret.events)[2 * i + 2] = Attempted(ret.stock_list[i + 1][1], TRUE)
    /\ \A i \in 1..Len(ret.stock_list) : InRegistry(stock_list, ret.stock_list[i][1])

\* the number of calls of update_stock in a run that returned result
ResultCount(events, result) ==
    Cardinality({i \in 1..Len(events) :
                    IsAttempt(events[i]) /\ events[i][3] = result})

\* C13 as stated: every run returns to its caller a summary holding the
\* number of symbols whose update_stock returned True and the number whose
\* update_stock returned False, which sum to the length of the list.
C13_ReturnsSummary ==
    ret.op = "update_all_stocks" =>
       /\ ret.result = <<[success_count |-> ResultCount(ret.events, TRUE),
                          fail_count |-> ResultCount(ret.events, FALSE)]>>
       /\ ResultCount(ret.events, TRUE) + ResultCount(ret.events, FALSE)
             = Len(ret.stock_list)

\* C13 amended: update_all_stocks returns None; a run that no exception of
\* add_stock_to_list ends prints one summary, whose success count is the
\* number of symbols whose update_stock returned True and whose failure
\* count the number whose update_stock returned False, the two summing to
\* the length of the list; a run ended by that exception prints none.
C13_PrintsSummaryReturnsNone ==
    ret.op = "update_all_stocks" =>
       /\ ret.result = <<>>
       /\ ret.raised => ret.printed = <<>>
       /\ ~ret.raised =>
             /\ ret.printed = <<[success_count |-> ResultCount(ret.events, TRUE),
                                 fail_count |-> ResultCount(ret.events, FALSE)]>>
             /\ ret.printed[1].success_count + ret.printed[1].fail_count
                   = Len(ret.stock_list)

\* C13 witness: a run over several symbols printed a summary with both a
\* success and a failure
C13_Witness ==
    /\ ret.op = "update_all_stocks"
    /\ Len(ret.stock_list) >= 2
    /\ ret.printed # <<>>
    /\ ret.printed[1].success_count >= 1
    /\ ret.printed[1].fail_count >= 1
    /\ ret.result = <<>>

\* the positions of the sleeps among the calls of a run
Sleeps(events) == {i \in 1..Len(events) : events[i] = Slept}

\* the number of calls of update_stock before position i
AttemptsBefore(events, i) == AttemptCount(SubSeq(events, 1, i - 1))

\* C14: a run over n >= 1 symbols that reaches its end sleeps exactly n - 1
\* times; every sleep comes right after update_stock of the j-th entry and
\* right before add_stock_to_list of the (j + 1)-th, every two consecutive
\* entries have a sleep between them, and no sleep is first or last.
C14_DelayBetweenConsecutive ==
    ret.op = "update_all_stocks" =>
       LET ev == ret.events
           list == ret.stock_list
           n == Len(list)
       IN  /\ (~ret.raised /\ n >= 1) => Cardinality(Sleeps(ev)) = n - 1
           /\ n = 0 => ev = <<>>
           /\ \A i \in Sleeps(ev) :
                 LET j == AttemptsBefore(ev, i)
                 IN  /\ 1 < i /\ i < Len(ev)
                     /\ j >= 1 /\ j < n
                     /\ IsAttempt(ev[i - 1]) /\ ev[i - 1][2] = list[j][1]
                     /\ ev[i + 1] = Registered(list[j + 1][1])
           /\ \A i \in 1..(Len(ev) - 1) : IsAttempt(ev[i]) => ev[i + 1] = Slept

\* C14 witness: a run over several symbols slept after a symbol whose
\* update failed and did not sleep after the last one
C14_Witness ==
    /\ ret.op = "update_all_stocks"
    /\ ~ret.raised
    /\ Len(ret.stock_list) >= 2
    /\ Cardinality(Sleeps(ret.events)) = Len(ret.stock_list) - 1
    /\ \E i \in Sleeps(ret.events) : ret.events[i - 1][3] = FALSE
    /\ IsAttempt(ret.events[Len(ret.events)])

\* C15: when the store raises while update_stock reads the latest date,
\* upserts the points or sets the last-update marker, the exception reaches
\* the caller of update_all_stocks: the run raises, the symbol is not counted
\* as a failure (or a success) and no later symbol is processed.
C15_StoreFailurePropagates ==
    ret.op = "update_all_stocks" =>
       \A i \in 1..Len(ret.caught) :
          /\ ret.raised
          /\ \A j \in 1..Len(ret.events) :
                ~(IsAttempt(ret.events[j]) /\ ret.events[j][2] = ret.caught[i])

\* where the store does not fail inside update_stock nothing is caught, and
\* an exception of add_stock_to_list does reach the caller
C15_OnlyRegistrationPropagates ==
    ret.op = "update_all_stocks" =>
       /\ (\A i \in 1..Len(ret.stock_list) :
              ret.envs[ret.stock_list[i][1]].fault \in {"none", "add_stock_to_list"})
             => ret.caught = <<>>
       /\ (\E i \in 1..Len(ret.stock_list) :
              ret.envs[ret.stock_list[i][1]].fault = "add_stock_to_list")
             => ret.raised

----------------------------------------------------------------------------
\* correlation_engine.py: CorrelationEngine.calculate_correlation
\*
\* A DataFrame of get_stock_prices is the sequence of its rows
\* [date, close_price], ascending by date.  A coefficient r is held exactly,
\* as the fraction num / den = sign(r) * r^2 with den > 0, which orders the
\* coefficients as r does: r = 1.0 is num = den, r = 0.0 is num = 0 and
\* r = -1.0 is num = -den.  NaN, the result of the division 0 / 0, is the
\* fraction with den = 0.

\* the largest number of stored points of a symbol in the correlation checks
MaxPoints == 4
\* the largest window length asked of calculate_correlation
MaxWindow == 4

Coefficient(num, den) == [num |-> num, den |-> den]
np_nan == Coefficient(0, 0)
\* pd.isna
isna(c) == c.den = 0

\* lines 96-97 without the truncation: the whole frame
whole(df, n) == df

\* DataFrame.tail(n)
tail(df, n) ==
    IF Len(df) <= n THEN df ELSE SubSeq(df, Len(df) - n + 1, Len(df))

\* lines 100, 112 with the factor 0.5: len(df) < days * 0.5
TooFewBelowHalf(len, days) == 10 * len < 5 * days

\* lines 100, 112: len(df) < days * 0.7; the product is the double nearest
\* to 7 * days / 10, and an integer is below it exactly when it is below
\* 7 * days / 10
TooFew(len, days) == 10 * len < 7 * days

\* lines 104-109: pd.merge on the two date indexes, an inner join that keeps
\* the dates both frames have (a date occurs once in a frame)
RECURSIVE merge(_, _)
merge(df1, df2) ==
    IF df1 = <<>> THEN <<>>
    ELSE LET row == Head(df1)
             same == {j \in 1..Len(df2) : df2[j].date = row.date}
         IN  (IF same = {} THEN <<>>
              ELSE <<[date |-> row.date,
                      close_price_1 |-> row.close_price,
                      close_price_2 |-> df2[CHOOSE j \in same : TRUE].close_price]>>)
             \o merge(Tail(df1), df2)

RECURSIVE SumSeq(_)
SumSeq(s) == IF s = <<>> THEN 0 ELSE Head(s) + SumSeq(Tail(s))

Times(x, y) == [i \in 1..Len(x) |-> x[i] * y[i]]

\* n times the sum of the products of the deviations of x and y from their
\* means
Codeviation(x, y) == Len(x) * SumSeq(Times(x, y)) - SumSeq(x) * SumSeq(y)

Sign(a) == IF a > 0 THEN 1 ELSE IF a < 0 THEN 0 - 1 ELSE 0

\* line 117 calling Series.cov: the covariance, not divided by the deviations
cov(x, y) ==
    LET sxy == Codeviation(x, y)
        n == Len(x)
    IN  IF n < 2 THEN np_nan
        ELSE Coefficient(Sign(sxy) * sxy * sxy, (n * (n - 1)) * (n * (n - 1)))

\* Series.corr giving 0.0 where a deviation is zero
corr_zero_for_constant(x, y) ==
    LET sxy == Codeviation(x, y)
        sxx == Codeviation(x, x)
        syy == Codeviation(y, y)
    IN  IF Len(x) < 2 \/ sxx = 0 \/ syy = 0 THEN Coefficient(0, 1)
        ELSE Coefficient(Sign(sxy) * sxy * sxy, sxx * syy)

\* line 117, Series.corr: Pearson's coefficient of two columns of equal
\* length, cov(x, y) / (std(x) * std(y)); NaN with fewer than 2 rows or a
\* column of zero variance
corr(x, y) ==
    LET sxy == Codeviation(x, y)
        sxx == Codeviation(x, x)
        syy == Codeviation(y, y)
    IN  IF Len(x) < 2 \/ sxx = 0 \/ syy = 0 THEN np_nan
        ELSE Coefficient(Sign(sxy) * sxy * sxy, sxx * syy)

\* calculate_correlation(data1, data2, days)
calculate_correlation(data1, data2, days) ==
    LET df1 == tail(data1, days)
        df2 == tail(data2, days)
        merged == merge(df1, df2)
    IN  IF TooFew(Len(df1), days) \/ TooFew(Len(df2), days) THEN np_nan
        ELSE IF TooFew(Len(merged), days) THEN np_nan
        ELSE corr([i \in 1..Len(merged) |-> merged[i].close_price_1],
                  [i \in 1..Len(merged) |-> merged[i].close_price_2])

\* a call of calculate_correlation on the frames its callers read from the
\* store, get_stock_prices(symbol, days=120)
CalculateCorrelation(symbol1, symbol2, days) ==
    \E data1 \in {get_stock_prices(stock_prices, symbol1, DefaultDays)},
       data2 \in {get_stock_prices(stock_prices, symbol2, DefaultDays)} :
        /\ ret' = [op |-> "calculate_correlation", symbol1 |-> symbol1,
                   symbol2 |-> symbol2, days |-> days,
                   result |-> calculate_correlation(data1, data2, days)]
        /\ UNCHANGED <<stock_prices, stock_list, now, history, buttons, threads>>

\* the days the stored points of the correlation checks fall on
CorrDates == (Day0 - MaxPoints)..(Day0 - 1)

\* the closes of a symbol on the days it has a point
CloseSeries == UNION {[days -> Prices] : days \in SUBSET CorrDates}

\* the rows of a symbol with the given closes
SeriesRows(symbol, closes) ==
    {PriceRow(symbol, d, closes[d], "TWSE") : d \in DOMAIN closes}

\* a store that holds any points of the two symbols
InitCorr ==
    /\ \E c1 \in CloseSeries, c2 \in CloseSeries :
          stock_prices = SetToBag(SeriesRows(Code1 \o TW, c1) \cup SeriesRows(Code1 \o TWO, c2))
    /\ stock_list = EmptyBag
    /\ now = Dt(Day0, FALSE)
    /\ history = [s \in StockSymbols |-> IF s \in Listed THEN BaseHistory ELSE {}]
    /\ ret = [op |-> "init"]
    /\ buttons = AllNormal
    /\ threads = EmptyBag

NextCorr ==
    \E days \in 1..MaxWindow : CalculateCorrelation(Code1 \o TW, Code1 \o TWO, days)

SpecCorr == InitCorr /\ [][NextCorr]_vars

----------------------------------------------------------------------------
\* Properties of calculate_correlation

\* the n latest of a set of days
LastDates(dates, n) == {d \in dates : Cardinality({e \in dates : e > d}) < n}

\* ceil(0.7 * days)
CeilOfGate(days) == (7 * days + 9) \div 10

\* the stored close of a symbol on a day
CloseOn(symbol, d) ==
    (CHOOSE r \in DOMAIN stock_prices : r.symbol = symbol /\ r.date = d).close_price

\* the days of the window of a call: those among the last `days` stored days
\* of each symbol that both have
JoinedDates(symbol1, symbol2, days) ==
    LastDates(StoredDates(stock_prices, symbol1), days)
       \cap LastDates(StoredDates(stock_prices, symbol2), days)

\* the closes of a symbol vary over a set of days
Varies(symbol, dates) == Cardinality({CloseOn(symbol, d) : d \in dates}) >= 2

\* the call passed both sufficiency gates
GatesPassed(symbol1, symbol2, days) ==
    /\ Cardinality(LastDates(StoredDates(stock_prices, symbol1), days)) >= CeilOfGate(days)
    /\ Cardinality(LastDates(StoredDates(stock_prices, symbol2), days)) >= CeilOfGate(days)
    /\ Cardinality(JoinedDates(symbol1, symbol2, days)) >= CeilOfGate(days)

\* the result is a number exactly when the gates are passed and both series
\* vary over the joined days
CorrelationDefinedExactly ==
    ret.op = "calculate_correlation" =>
       LET joined == JoinedDates(ret.symbol1, ret.symbol2, ret.days)
       IN  ~isna(ret.result) <=>
              /\ GatesPassed(ret.symbol1, ret.symbol2, ret.days)
              /\ Varies(ret.symbol1, joined)
              /\ Varies(ret.symbol2, joined)

\* C16: the result is NaN whenever one of the series cut to its last `days`
\* points has fewer than ceil(0.7 * days) points, or the days both cut
\* series have are fewer than ceil(0.7 * days); so it is NaN whenever the
\* days the two whole series share are fewer than 0.7 * days.
C16_InsufficientDataIsNaN ==
    ret.op = "calculate_correlation" =>
       LET d1 == StoredDates(stock_prices, ret.symbol1)
           d2 == StoredDates(stock_prices, ret.symbol2)
       IN  /\ ~GatesPassed(ret.symbol1, ret.symbol2, ret.days) => isna(ret.result)
           /\ 10 * Cardinality(d1 \cap d2) < 7 * ret.days => isna(ret.result)

\* C16 witness: each series has enough points in its last `days`, fewer than
\* `days` of them, the joined days are too few although both series vary
\* over them, and the result is NaN
C16_Witness ==
    /\ ret.op = "calculate_correlation"
    /\ LET t1 == LastDates(StoredDates(stock_prices, ret.symbol1), ret.days)
           t2 == LastDates(StoredDates(stock_prices, ret.symbol2), ret.days)
       IN  /\ Cardinality(t1) >= CeilOfGate(ret.days)
           /\ Cardinality(t2) >= CeilOfGate(ret.days)
           /\ Cardinality(t1) < ret.days
           /\ Cardinality(t1 \cap t2) < CeilOfGate(ret.days)
           /\ Cardinality(t1 \cap t2) >= 2
           /\ Varies(ret.symbol1, t1 \cap t2)
           /\ Varies(ret.symbol2, t1 \cap t2)
    /\ isna(ret.result)

\* the two symbols have the same stored points
Identical(symbol1, symbol2) ==
    /\ StoredDates(stock_prices, symbol1) = StoredDates(stock_prices, symbol2)
    /\ \A d \in StoredDates(stock_prices, symbol1) : CloseOn(symbol1, d) = CloseOn(symbol2, d)

\* the coefficient is 1.0
IsOne(c) == c.den > 0 /\ c.num = c.den

\* C17 as stated: on two identical series with at least 2 overlapping points
\* the result is 1.0, whatever the window length.
C17_IdenticalIsOne ==
    (/\ ret.op = "calculate_correlation"
     /\ Identical(ret.symbol1, ret.symbol2)
     /\ Cardinality(StoredDates(stock_prices, ret.symbol1)) >= 2)
       => IsOne(ret.result)

\* C17 amended: on two identical series whose last `days` points are at
\* least ceil(0.7 * days), at least 2, and not all of the same close, the
\* result is 1.0, whatever the window length; on identical series that lack
\* one of these it is NaN.
C17_IdenticalVaryingSufficientIsOne ==
    (/\ ret.op = "calculate_correlation"
     /\ Identical(ret.symbol1, ret.symbol2))
       => LET t == LastDates(StoredDates(stock_prices, ret.symbol1), ret.days)
              enough == /\ Cardinality(t) >= CeilOfGate(ret.days)
                        /\ Cardinality(t) >= 2
                        /\ Varies(ret.symbol1, t)
          IN  /\ enough => IsOne(ret.result)
              /\ ~enough => isna(ret.result)

\* C17 witness: identical varying series with fewer points than the window
\* is long, enough to pass the gates, and the result is 1.0
C17_Witness ==
    /\ ret.op = "calculate_correlation"
    /\ Identical(ret.symbol1, ret.symbol2)
    /\ Cardinality(StoredDates(stock_prices, ret.symbol1)) < ret.days
    /\ Cardinality(StoredDates(stock_prices, ret.symbol1)) >= 3
    /\ IsOne(ret.result)

\* C18: the result is NaN when, over the joined days of the window, one
\* series is constant and the other varies, and when the joined days are
\* fewer than 2.
C18_ZeroVarianceIsNaN ==
    ret.op = "calculate_correlation" =>
       LET joined == JoinedDates(ret.symbol1, ret.symbol2, ret.days)
       IN  /\ Cardinality(joined) < 2 => isna(ret.result)
           /\ (Varies(ret.symbol1, joined) /\ ~Varies(ret.symbol2, joined))
                 => isna(ret.result)
           /\ (~Varies(ret.symbol1, joined) /\ Varies(ret.symbol2, joined))
                 => isna(ret.result)

\* C18 witness: the gates are passed with 3 joined days or more, one series
\* is constant over them, the other varies, and the result is NaN
C18_Witness ==
    /\ ret.op = "calculate_correlation"
    /\ GatesPassed(ret.symbol1, ret.symbol2, ret.days)
    /\ LET joined == JoinedDates(ret.symbol1, ret.symbol2, ret.days)
       IN  /\ Cardinality(joined) >= 3
           /\ ~Varies(ret.symbol1, joined)
           /\ Varies(ret.symbol2, joined)
    /\ isna(ret.result)

\* C18 second case: the gates are passed by a single joined day
C18_SinglePointReached ==
    /\ ret.op = "calculate_correlation"
    /\ GatesPassed(ret.symbol1, ret.symbol2, ret.days)
    /\ Cardinality(JoinedDates(ret.symbol1, ret.symbol2, ret.days)) = 1
    /\ isna(ret.result)

----------------------------------------------------------------------------
\* correlation_engine.py: CorrelationEngine.find_correlated_stocks, the
\* ranking operation.  Its callers are in the source (correlation_engine.py
\* 238, test_system.py 43, main_gui.py 329) and read the keys symbol, name,
\* corr_120, corr_20 and corr_10 of its entries; its body is not, and is
\* taken from section 4.4 of the specification (rankBySimilarity).

\* the largest top_n asked of find_correlated_stocks
MaxTopN == 3

\* the windows 120, 20 and 10 at the scale of the stored points of the
\* model: the long window is the number of points loaded per symbol
LongWindow == MaxWindow
MediumWindow == MaxWindow - 1
ShortWindow == MaxWindow - 2

\* 0.0
zero == Coefficient(0, 1)

\* corr if not pd.isna(corr) else 0.0
nan_to_zero(c) == IF isna(c) THEN zero ELSE c

\* the order of two coefficients that are numbers
CoefLT(a, b) == a.num * b.den < b.num * a.den
CoefEQ(a, b) == a.num * b.den = b.num * a.den

\* the three windows of a candidate against the target, NaN where undefined
Windows(target_data, data) ==
    [corr_120 |-> calculate_correlation(target_data, data, LongWindow),
     corr_20  |-> calculate_correlation(target_data, data, MediumWindow),
     corr_10  |-> calculate_correlation(target_data, data, ShortWindow)]

AllUndefined(w) == isna(w.corr_120) /\ isna(w.corr_20) /\ isna(w.corr_10)

\* SELECT name FROM stock_list WHERE symbol = ?; "" if unregistered
DisplayName(list, symbol) ==
    IF \E r \in DOMAIN list : r.symbol = symbol
    THEN (CHOOSE r \in DOMAIN list : r.symbol = symbol).name
    ELSE ""

\* the entry of a candidate, 0.0 in place of an undefined window
RankEntry(list, symbol, w) ==
    [symbol |-> symbol, name |-> DisplayName(list, symbol),
     corr_120 |-> nan_to_zero(w.corr_120),
     corr_20  |-> nan_to_zero(w.corr_20),
     corr_10  |-> nan_to_zero(w.corr_10)]

\* the sort key compared on the long window alone
RanksBeforeLongOnly(a, b) ==
    CoefLT(b.corr_120, a.corr_120)

\* a ranks strictly before b: its tuple (corr_120, corr_20, corr_10) is the
\* greater one lexicographically
RanksBefore(a, b) ==
    \/ CoefLT(b.corr_120, a.corr_120)
    \/ /\ CoefEQ(a.corr_120, b.corr_120)
       /\ \/ CoefLT(b.corr_20, a.corr_20)
          \/ /\ CoefEQ(a.corr_20, b.corr_20)
             /\ CoefLT(b.corr_10, a.corr_10)

\* the stable descending sort: an entry goes behind the entries placed
\* before it that it does not rank before
RECURSIVE InsertRanked(_, _)
InsertRanked(ranked, e) ==
    IF ranked = <<>> THEN <<e>>
    ELSE IF RanksBefore(e, Head(ranked))
         THEN <<e>> \o ranked
         ELSE <<Head(ranked)>> \o InsertRanked(Tail(ranked), e)

RECURSIVE SortRanked(_, _)
SortRanked(ranked, entries) ==
    IF entries = <<>> THEN ranked
    ELSE SortRanked(InsertRanked(ranked, Head(entries)), Tail(entries))

\* the entries of the candidates of the universe, in its order: the target
\* is left out, a symbol with no stored point is skipped and a candidate
\* whose three windows are all undefined is dropped
RECURSIVE Eligible(_, _, _, _, _)
Eligible(prices, list, full_symbol, target_data, universe) ==
    IF universe = <<>> THEN <<>>
    ELSE LET symbol == Head(universe)
             data == get_stock_prices(prices, symbol, DefaultDays)
             w == Windows(target_data, data)
             rest == Eligible(prices, list, full_symbol, target_data, Tail(universe))
         IN  IF symbol = full_symbol \/ data = <<>> \/ AllUndefined(w)
             THEN rest
             ELSE <<RankEntry(list, symbol, w)>> \o rest

\* the first top_n of the ranked entries keeping one too many
TopPlusOne(ranked, top_n) == Limit(ranked, top_n + 1)

\* the first top_n of the ranked entries
Top(ranked, top_n) == Limit(ranked, top_n)

Ranking(raised, result) == [raised |-> raised, result |-> result]

\* find_correlated_stocks(target, top_n) over a universe of candidates;
\* raised: the ValueError of a target that is not found or has no data
find_correlated_stocks(prices, list, target, universe, top_n, p1, p2) ==
    LET full_symbol == get_full_symbol(prices, target, p1, p2).result
        target_data == get_stock_prices(prices, full_symbol, DefaultDays)
    IN  IF full_symbol = <<>> THEN Ranking(TRUE, <<>>)
        ELSE IF target_data = <<>> THEN Ranking(TRUE, <<>>)
        ELSE Ranking(FALSE,
                     Top(SortRanked(<<>>, Eligible(prices, list, full_symbol,
                                                   target_data, universe)),
                         top_n))

\* a call of find_correlated_stocks
FindCorrelatedStocks(target, universe, top_n, p1, p2) ==
    \E r \in {find_correlated_stocks(stock_prices, stock_list, target, universe,
                                     top_n, p1, p2)} :
        /\ ret' = [op |-> "find_correlated_stocks", target |-> target,
                   universe |-> universe, top_n |-> top_n,
                   raised |-> r.raised, result |-> r.result]
        /\ UNCHANGED <<stock_prices, stock_list, now, history, buttons, threads>>

Code2 == <<"2">>
Code3 == <<"3">>

\* the closes of a symbol, oldest first, as a series that ends on the latest
\* day
ShapeSeries(t) ==
    [d \in (Day0 - Len(t))..(Day0 - 1) |-> t[d - (Day0 - Len(t)) + 1]]

TargetShapes == {<<>>, <<10, 11, 10, 11>>, <<10, 10, 11, 11>>}

CandidateShapes ==
    {<<>>, <<10, 11, 10, 11>>, <<11, 10, 11, 10>>, <<10, 10, 10, 10>>,
     <<10, 11, 11, 11>>, <<10, 11>>, <<11, 10>>}

\* the code asked for and what the provider answers when probed for it
RankTargets == {<<Code1, "empty">>, <<Code1 \o TW, "data">>}

RankUniverses ==
    {<<Code1 \o TWO, Code1 \o TW, Code2 \o TW, Code3 \o TW>>,
     <<Code3 \o TW, Code2 \o TW, Code1 \o TWO>>}

\* a store with points of a target and of three candidates, two of them
\* registered
InitRank ==
    /\ \E t \in TargetShapes, c1 \in CandidateShapes, c2 \in CandidateShapes,
          c3 \in CandidateShapes :
          stock_prices = SetToBag(SeriesRows(Code1 \o TW, ShapeSeries(t))
                                  \cup SeriesRows(Code1 \o TWO, ShapeSeries(c1))
                                  \cup SeriesRows(Code2 \o TW, ShapeSeries(c2))
                                  \cup SeriesRows(Code3 \o TW, ShapeSeries(c3)))
    /\ stock_list = SetToBag({ListRow(Code1 \o TWO, "A", "TW", <<>>),
                              ListRow(Code2 \o TW, "B", "TW", <<>>)})
    /\ now = Dt(Day0, FALSE)
    /\ history = [s \in StockSymbols |-> IF s \in Listed THEN BaseHistory ELSE {}]
    /\ ret = [op |-> "init"]
    /\ buttons = AllNormal
    /\ threads = EmptyBag

NextRank ==
    \E target \in RankTargets, universe \in RankUniverses, top_n \in 1..MaxTopN :
        FindCorrelatedStocks(target[1], universe, top_n, target[2], "empty")

SpecRank == InitRank /\ [][NextRank]_vars

----------------------------------------------------------------------------
\* Properties of find_correlated_stocks

\* a >= b for coefficients that are numbers
CoefGE(a, b) == a.num * b.den >= b.num * a.den

\* the tuple (corr_120, corr_20, corr_10) of a is lexicographically >= that
\* of b
TupleGE(a, b) ==
    \/ ~CoefGE(b.corr_120, a.corr_120)
    \/ /\ CoefGE(a.corr_120, b.corr_120)
       /\ \/ ~CoefGE(b.corr_20, a.corr_20)
          \/ /\ CoefGE(a.corr_20, b.corr_20)
             /\ CoefGE(a.corr_10, b.corr_10)

\* the symbol the target of a call that did not raise resolved to: it has
\* stored points, so the cache decides and the provider is not asked
ResolvedTarget == get_full_symbol(stock_prices, ret.target, "empty", "empty").result

\* the window of the given length of a candidate against the target is a
\* number, told from the stored points
WindowDefined(full, symbol, days) ==
    /\ GatesPassed(full, symbol, days)
    /\ Varies(full, JoinedDates(full, symbol, days))
    /\ Varies(symbol, JoinedDates(full, symbol, days))

\* the tuple of a candidate with 0.0 for an undefined window
TupleOf(full, symbol) ==
    LET w == Windows(get_stock_prices(stock_prices, full, DefaultDays),
                     get_stock_prices(stock_prices, symbol, DefaultDays))
    IN  [corr_120 |-> IF WindowDefined(full, symbol, LongWindow) THEN w.corr_120 ELSE zero,
         corr_20  |-> IF WindowDefined(full, symbol, MediumWindow) THEN w.corr_20 ELSE zero,
         corr_10  |-> IF WindowDefined(full, symbol, ShortWindow) THEN w.corr_10 ELSE zero]

\* C19: in the list a call returns, the tuple (corr_120, corr_20, corr_10)
\* of every entry is lexicographically >= that of the entry after it, each
\* value being the window's coefficient, or 0.0 where the window is
\* undefined.
C19_RankingSortedDescending ==
    ret.op = "find_correlated_stocks" =>
       /\ \A i \in 1..(Len(ret.result) - 1) : TupleGE(ret.result[i], ret.result[i + 1])
       /\ \A i \in 1..Len(ret.result) :
             LET e == ret.result[i]
                 t == TupleOf(ResolvedTarget, e.symbol)
             IN  /\ e.corr_120 = t.corr_120
                 /\ e.corr_20 = t.corr_20
                 /\ e.corr_10 = t.corr_10

\* C19 witness: three entries; two are level on the long window and ordered
\* by the medium one, and one has 0.0 in place of an undefined window
C19_Witness ==
    /\ ret.op = "find_correlated_stocks"
    /\ Len(ret.result) = 3
    /\ \E i \in 1..2 :
          /\ CoefEQ(ret.result[i].corr_120, ret.result[i + 1].corr_120)
          /\ ~CoefGE(ret.result[i + 1].corr_20, ret.result[i].corr_20)
    /\ \E i \in 1..3 :
          ~WindowDefined(ResolvedTarget, ret.result[i].symbol, ShortWindow)

\* C19 second case: two entries level on the long and the medium window are
\* ordered by the short one
C19_ShortWindowDecides ==
    /\ ret.op = "find_correlated_stocks"
    /\ \E i \in 1..(Len(ret.result) - 1) :
          /\ CoefEQ(ret.result[i].corr_120, ret.result[i + 1].corr_120)
          /\ CoefEQ(ret.result[i].corr_20, ret.result[i + 1].corr_20)
          /\ ~CoefGE(ret.result[i + 1].corr_10, ret.result[i].corr_10)

\* the symbols of the universe that may be ranked: not the target, with a
\* stored point, and with a window that is defined
EligibleSymbols(full, universe) ==
    {s \in {universe[i] : i \in 1..Len(universe)} :
        /\ s # full
        /\ HasPoint(stock_prices, s)
        /\ \/ WindowDefined(full, s, LongWindow)
           \/ WindowDefined(full, s, MediumWindow)
           \/ WindowDefined(full, s, ShortWindow)}

\* C20: a call that does not raise returns min(top_n, eligible) entries, one
\* per symbol, each an eligible candidate: a symbol of the universe that is
\* not the target, has stored points and has a defined window; and every
\* eligible candidate left out has a tuple that is not above that of any
\* entry, so the entries are the first top_n of the sorted candidates.
C20_TopOfEligible ==
    (ret.op = "find_correlated_stocks" /\ ~ret.raised) =>
       LET full == ResolvedTarget
           eligible == EligibleSymbols(full, ret.universe)
           listed == {ret.result[i].symbol : i \in 1..Len(ret.result)}
       IN  /\ Len(ret.result) <= ret.top_n
           /\ Len(ret.result) = Min(ret.top_n, Cardinality(eligible))
           /\ Cardinality(listed) = Len(ret.result)
           /\ listed \subseteq eligible
           /\ full \notin listed
           /\ \A s \in eligible \ listed :
                 \A i \in 1..Len(ret.result) :
                    TupleGE(ret.result[i], TupleOf(full, s))

\* C20 witness: the universe holds the target and three candidates with
\* stored points, one of them with no defined window; the top 2 asked for
\* are the other two, the greater long window first
C20_Witness ==
    /\ ret.op = "find_correlated_stocks"
    /\ ~ret.raised
    /\ ret.top_n = 2
    /\ ResolvedTarget \in {ret.universe[i] : i \in 1..Len(ret.universe)}
    /\ \A i \in 1..Len(ret.universe) : HasPoint(stock_prices, ret.universe[i])
    /\ Cardinality(EligibleSymbols(ResolvedTarget, ret.universe)) = 2
    /\ Len(ret.result) = 2
    /\ ~CoefGE(ret.result[2].corr_120, ret.result[1].corr_120)

\* C20 second case: more candidates are eligible than asked for
C20_Truncated ==
    /\ ret.op = "find_correlated_stocks"
    /\ ~ret.raised
    /\ Cardinality(EligibleSymbols(ResolvedTarget, ret.universe)) > ret.top_n
    /\ Len(ret.result) = ret.top_n

----------------------------------------------------------------------------
\* correlation_engine.py: CorrelationEngine.calculate_two_stocks_correlation

\* the days of the cache reads and of the on-demand update (lines 156-168)
PairDays == 120
\* the three windows of lines 177-179
Window120 == 120
Window60 == 60
Window20 == 20

\* a read of the cache, as the engine makes it: get_stock_prices(symbol, 120)
ReadPrices(symbol) == <<"get_stock_prices", symbol>>

\* the ValueError of lines 151, 153, 172 and 174 and the symbol it names
NotFound(symbol) == <<"ValueError", symbol>>

\* what a call leaves: the store, the calls it made, and either the error it
\* raised or the dictionary it returned
PairResult(st, error, result) ==
    [prices |-> st.prices, list |-> st.list, events |-> st.events,
     error |-> error, result |-> result]

\* lines 160-163 without the test of self.updater: update_stock is called
\* for every empty frame
OnDemandWithoutUpdater(st, full_symbol, data, updater, end_date, env) ==
    LET u == update_stock([prices |-> st.prices, list |-> st.list],
                          full_symbol, PairDays, end_date, env)
    IN  IF data = <<>>
        THEN [prices |-> u.prices, list |-> u.list,
              events |-> st.events \o <<Attempted(full_symbol, u.result)>>
                           \o (IF u.result THEN <<ReadPrices(full_symbol)>> ELSE <<>>),
              data |-> IF u.result
                       THEN get_stock_prices(u.prices, full_symbol, PairDays)
                       ELSE data]
        ELSE [st EXCEPT !.data = data]

\* lines 160-163 (and 165-168): if data.empty and self.updater, update_stock
\* is called and, if it returns True, the data is read again
OnDemand(st, full_symbol, data, updater, end_date, env) ==
    LET u == update_stock([prices |-> st.prices, list |-> st.list],
                          full_symbol, PairDays, end_date, env)
    IN  IF data = <<>> /\ updater
        THEN [prices |-> u.prices, list |-> u.list,
              events |-> st.events \o <<Attempted(full_symbol, u.result)>>
                           \o (IF u.result THEN <<ReadPrices(full_symbol)>> ELSE <<>>),
              data |-> IF u.result
                       THEN get_stock_prices(u.prices, full_symbol, PairDays)
                       ELSE data]
        ELSE [st EXCEPT !.data = data]

\* lines 183-185: SELECT name FROM stock_list WHERE symbol = ?, "" if no row
SelectName(list, symbol) ==
    IF \E r \in DOMAIN list : r.symbol = symbol
    THEN (CHOOSE r \in DOMAIN list : r.symbol = symbol).name
    ELSE ""

\* lines 191-199 returning the coefficients as calculated
PairDictKeepingNaN(list, full_symbol1, full_symbol2, data1, data2) ==
    [symbol1 |-> full_symbol1,
     symbol2 |-> full_symbol2,
     name1 |-> SelectName(list, full_symbol1),
     name2 |-> SelectName(list, full_symbol2),
     corr_120 |-> calculate_correlation(data1, data2, Window120),
     corr_60 |-> calculate_correlation(data1, data2, Window60),
     corr_20 |-> calculate_correlation(data1, data2, Window20)]

\* lines 176-199: the three windows, the two names and the dictionary
PairDict(list, full_symbol1, full_symbol2, data1, data2) ==
    [symbol1 |-> full_symbol1,
     symbol2 |-> full_symbol2,
     name1 |-> SelectName(list, full_symbol1),
     name2 |-> SelectName(list, full_symbol2),
     corr_120 |-> nan_to_zero(calculate_correlation(data1, data2, Window120)),
     corr_60 |-> nan_to_zero(calculate_correlation(data1, data2, Window60)),
     corr_20 |-> nan_to_zero(calculate_correlation(data1, data2, Window20))]

\* lines 155-199, once both symbols are resolved: both frames are read, then
\* each empty one is fetched on demand, then each is checked
PairOfResolved(tables, full_symbol1, full_symbol2, updater, end_date, env) ==
    LET data1 == get_stock_prices(tables.prices, full_symbol1, PairDays)
        data2 == get_stock_prices(tables.prices, full_symbol2, PairDays)
        st0 == [prices |-> tables.prices, list |-> tables.list, data |-> <<>>,
                events |-> <<ReadPrices(full_symbol1), ReadPrices(full_symbol2)>>]
        st1 == OnDemand(st0, full_symbol1, data1, updater, end_date, env)
        st2 == OnDemand(st1, full_symbol2, data2, updater, end_date, env)
    IN  IF st1.data = <<>> THEN PairResult(st2, <<NotFound(full_symbol1)>>, <<>>)
        ELSE IF st2.data = <<>> THEN PairResult(st2, <<NotFound(full_symbol2)>>, <<>>)
        ELSE PairResult(st2, <<>>,
                        <<PairDict(st2.list, full_symbol1, full_symbol2,
                                   st1.data, st2.data)>>)

\* calculate_two_stocks_correlation(symbol1, symbol2) at the time end_date;
\* updater: one is attached; p1, p2: what the provider answers when probed
\* for a .TW and a .TWO candidate; env: what goes wrong in update_stock
calculate_two_stocks_correlation(tables, symbol1, symbol2, updater, end_date, p1, p2, env) ==
    LET full_symbol1 == get_full_symbol(tables.prices, symbol1, p1, p2).result
        full_symbol2 == get_full_symbol(tables.prices, symbol2, p1, p2).result
        st == [prices |-> tables.prices, list |-> tables.list, events |-> <<>>]
    IN  IF full_symbol1 = <<>> THEN PairResult(st, <<NotFound(symbol1)>>, <<>>)
        ELSE IF full_symbol2 = <<>> THEN PairResult(st, <<NotFound(symbol2)>>, <<>>)
        ELSE PairOfResolved(tables, full_symbol1, full_symbol2, updater, end_date, env)

\* a call of calculate_two_stocks_correlation
CalculateTwoStocksCorrelation(symbol1, symbol2, updater, p1, p2, env) ==
    \E r \in {calculate_two_stocks_correlation(
                  [prices |-> stock_prices, list |-> stock_list],
                  symbol1, symbol2, updater, now, p1, p2, env)} :
        /\ stock_prices' = r.prices
        /\ stock_list' = r.list
        /\ ret' = [op |-> "calculate_two_stocks_correlation", symbol1 |-> symbol1,
                   symbol2 |-> symbol2, updater |-> updater, p1 |-> p1, p2 |-> p2,
                   env |-> env, events |-> r.events, error |-> r.error,
                   result |-> r.result]
        /\ UNCHANGED <<now, history, buttons, threads>>

\* the number of stored points that passes the gate of the 20-day window
PairPoints == 14

\* closes that alternate, closes that rise once, and closes that never move
Zigzag(n) == [i \in 1..n |-> IF i % 2 = 0 THEN 10 ELSE 11]
Step(n) == [i \in 1..n |-> IF 2 * i <= n THEN 10 ELSE 11]
Flat(n) == [i \in 1..n |-> 10]

PairShapes1 == {<<>>, Zigzag(PairPoints)}
PairShapes2 == {<<>>, <<10, 11>>, Step(PairPoints), Flat(PairPoints)}

\* the two symbols asked for
PairArgs == {<<Code1 \o TW, Code1 \o TWO>>, <<Code1, Code1 \o TWO>>,
             <<Code1 \o TW, Code1 \o TW>>, <<Code1 \o TWO, Code1>>}
\* every symbol a resolution of the arguments may give
PairSymbols == StockSymbols \cup {Code1O \o TW, Code1O \o TWO}
\* what the provider answers when probed for the .TW and the .TWO candidate
ProviderAnswers == {<<"data", "empty">>, <<"empty", "data">>, <<"empty", "empty">>}
PairEnvs == {Env(FALSE, "none"), Env(TRUE, "none"), Env(FALSE, "update_last_update")}

\* a store with points of the two symbols, one of them registered, at the
\* start of a day or within it; the provider has the history of both
InitPair ==
    /\ \E c1 \in PairShapes1, c2 \in PairShapes2 :
          stock_prices = SetToBag(SeriesRows(Code1 \o TW, ShapeSeries(c1))
                                  \cup SeriesRows(Code1 \o TWO, ShapeSeries(c2)))
    /\ stock_list = SetToBag({ListRow(Code1 \o TW, "A", "TW", <<>>)})
    /\ now \in {Dt(Day0, FALSE), Dt(Day0, TRUE)}
    /\ history = [s \in PairSymbols |-> IF s \in StockSymbols THEN BaseHistory ELSE {}]
    /\ ret = [op |-> "init"]
    /\ buttons = AllNormal
    /\ threads = EmptyBag

NextPair ==
    \E args \in PairArgs, updater \in BOOLEAN, p \in ProviderAnswers, env \in PairEnvs :
        CalculateTwoStocksCorrelation(args[1], args[2], updater, p[1], p[2], env)

SpecPair == InitPair /\ [][NextPair]_vars

----------------------------------------------------------------------------
\* Properties of calculate_two_stocks_correlation

\* a step that is a call of calculate_two_stocks_correlation
PairStep == ret' # ret /\ ret'.op = "calculate_two_stocks_correlation"

\* what the arguments of the call of the step resolve to, <<>> for None
FullSymbol1 == get_full_symbol(stock_prices, ret'.symbol1, ret'.p1, ret'.p2).result
FullSymbol2 == get_full_symbol(stock_prices, ret'.symbol2, ret'.p1, ret'.p2).result

\* the calls of update_stock among the calls of a record
Attempts(events) == SelectSeq(events, IsAttempt)

\* C21 (as stated, its only-if half for a store that does not fail): a call
\* of calculate_two_stocks_correlation that raises the not-found error has
\* an argument that cannot be resolved, or a resolved symbol whose cache was
\* empty and for which no updater is attached or the on-demand update left
\* the cache without data.
C21_NotFoundOnlyWithoutData ==
    [][PairStep /\ ret'.env = Env(FALSE, "none") /\ ret'.error # <<>>
       => \A full \in {<<FullSymbol1, FullSymbol2>>} :
          \/ full[1] = <<>>
          \/ full[2] = <<>>
          \/ \E i \in 1..2 :
                /\ ~HasPoint(stock_prices, full[i])
                /\ ~ret'.updater \/ ~HasPoint(stock_prices', full[i])]_vars

\* the not-found error is raised exactly when an argument cannot be
\* resolved, or the frame read for an argument was empty and no updater is
\* attached, the update_stock called for that argument returned False, or it
\* returned True and the frame read again is empty; update_stock is called
\* once for each argument whose frame was empty, in the order of the
\* arguments, and for no other
C21_NotFoundPerArgument ==
    [][PairStep => \A full \in {<<FullSymbol1, FullSymbol2>>} :
        LET resolved == full[1] # <<>> /\ full[2] # <<>>
            wanted == {i \in 1..2 : ~HasPoint(stock_prices, full[i]) /\ ret'.updater}
            attempts == Attempts(ret'.events)
            \* the position among the attempts of the one made for argument i
            at(i) == IF i = 2 /\ 1 \in wanted THEN 2 ELSE 1
            yielded(i) == /\ i \in wanted
                          /\ attempts[at(i)][3]
                          /\ HasPoint(stock_prices', full[i])
        IN  /\ ~resolved => ret'.error # <<>> /\ ret'.events = <<>>
            /\ resolved =>
                 /\ Len(attempts) = Cardinality(wanted)
                 /\ \A i \in wanted : attempts[at(i)][2] = full[i]
                 /\ ret'.error # <<>>
                      <=> \E i \in 1..2 : ~HasPoint(stock_prices, full[i]) /\ ~yielded(i)]_vars

\* a call on a store with no points of a symbol, with an updater attached and
\* a provider that has the history: the symbol is fetched and the call
\* returns
C21_OnDemandReached ==
    /\ ret.op = "calculate_two_stocks_correlation"
    /\ ret.error = <<>>
    /\ \E i \in 1..Len(ret.events) : ret.events[i] = Attempted(Code1 \o TW, TRUE)

\* without a failing store, a call whose arguments resolve to different
\* symbols raises the not-found error only for a symbol that is unresolved
\* or left without data
C21_HoldsForDistinctSymbols ==
    [][PairStep /\ ret'.env = Env(FALSE, "none") /\ ret'.error # <<>>
       => \A full \in {<<FullSymbol1, FullSymbol2>>} :
          \/ full[1] = <<>>
          \/ full[2] = <<>>
          \/ full[1] = full[2]
          \/ \E i \in 1..2 :
                /\ ~HasPoint(stock_prices, full[i])
                /\ ~ret'.updater \/ ~HasPoint(stock_prices', full[i])]_vars

\* the coefficient is a number of [-1, 1]
InUnitRange(c) == c.den > 0 /\ 0 - c.den <= c.num /\ c.num <= c.den

\* the stored points of the two symbols give no coefficient over a window:
\* a sufficiency gate is not passed, or one series does not vary over the
\* joined days
UndefinedOver(symbol1, symbol2, days) ==
    LET joined == JoinedDates(symbol1, symbol2, days)
    IN  ~(/\ GatesPassed(symbol1, symbol2, days)
          /\ Varies(symbol1, joined)
          /\ Varies(symbol2, joined))

\* the name the registry holds for a symbol is name; "" if it holds none
NameInRegistry(table, symbol, name) ==
    IF InRegistry(table, symbol)
    THEN \E r \in DOMAIN table : r.symbol = symbol /\ r.name = name
    ELSE name = ""

\* C22: every coefficient of the dictionary returned by
\* calculate_two_stocks_correlation (windows 120, 60 and 20) is a number of
\* [-1, 1], never NaN, and is exactly 0.0 for a window over which the stored
\* points give no coefficient; symbol1 and symbol2 are what the arguments
\* resolve to, carry a venue suffix, and name1 and name2 are their names in
\* the registry, "" for a symbol that is not registered.
C22_CoefficientsAreNumbers ==
    [][PairStep /\ ret'.result # <<>> =>
        \A d \in {ret'.result[1]} :
           /\ \A w \in {<<d.corr_120, Window120>>, <<d.corr_60, Window60>>,
                        <<d.corr_20, Window20>>} :
                 /\ InUnitRange(w[1])
                 /\ UndefinedOver(d.symbol1, d.symbol2, w[2])' => w[1] = zero
           /\ d.symbol1 = FullSymbol1
           /\ d.symbol2 = FullSymbol2
           /\ \A s \in {d.symbol1, d.symbol2} : EndsWith(s, TW) \/ EndsWith(s, TWO)
           /\ NameInRegistry(stock_list', d.symbol1, d.name1)
           /\ NameInRegistry(stock_list', d.symbol2, d.name2)]_vars

\* C22 witness: a returned dictionary whose 20-day coefficient is a number
\* other than 0.0 while the 120-day and 60-day windows, over which the
\* stored points give no coefficient, are 0.0, for a registered and an
\* unregistered symbol
C22_Witness ==
    /\ ret.op = "calculate_two_stocks_correlation"
    /\ ret.result # <<>>
    /\ LET d == ret.result[1]
       IN  /\ InUnitRange(d.corr_20) /\ d.corr_20.num < 0
           /\ UndefinedOver(d.symbol1, d.symbol2, Window120)
           /\ UndefinedOver(d.symbol1, d.symbol2, Window60)
           /\ d.corr_120 = zero /\ d.corr_60 = zero
           /\ d.name1 = "A" /\ d.name2 = ""
           /\ InRegistry(stock_list, d.symbol1) /\ ~InRegistry(stock_list, d.symbol2)

\* a returned dictionary whose three coefficients are 0.0 for two symbols
\* with stored points, one of them fetched on demand
C22_AllUndefinedReached ==
    /\ ret.op = "calculate_two_stocks_correlation"
    /\ ret.result # <<>>
    /\ Attempts(ret.events) # <<>>
    /\ ret.result[1].corr_120 = zero
    /\ ret.result[1].corr_60 = zero
    /\ ret.result[1].corr_20 = zero

----------------------------------------------------------------------------
\* correlation_engine.py: CorrelationEngine.format_correlation_strength
\*
\* The argument is a float, held like every coefficient of this model as the
\* fraction sign(r) * r^2, so abs(r) >= 0.9 is abs(num) / den >= 0.81.  A
\* comparison with NaN is False.

\* abs(corr)
abs(c) == Coefficient(IF c.num < 0 THEN 0 - c.num ELSE c.num, c.den)

\* a > b, False if one of them is NaN
gt(a, b) == ~isna(a) /\ ~isna(b) /\ a.num * b.den > b.num * a.den

\* a >= b, False if one of them is NaN
ge(a, b) == ~isna(a) /\ ~isna(b) /\ a.num * b.den >= b.num * a.den

\* the literals 0.9, 0.7, 0.5 and 0.3 of lines 213-219
Bound09 == Coefficient(81, 100)
Bound07 == Coefficient(49, 100)
Bound05 == Coefficient(25, 100)
Bound03 == Coefficient(9, 100)

\* lines 213-222 with the bands open below: abs_corr > 0.9, ...
StrengthExclusive(abs_corr) ==
    IF gt(abs_corr, Bound09) THEN "very strong"
    ELSE IF gt(abs_corr, Bound07) THEN "strong"
    ELSE IF gt(abs_corr, Bound05) THEN "moderate"
    ELSE IF gt(abs_corr, Bound03) THEN "weak"
    ELSE "very weak"

\* lines 213-222: the labels are those of the source in English, in order
\* "極強", "強", "中等", "弱", "極弱"
Strength(abs_corr) ==
    IF ge(abs_corr, Bound09) THEN "very strong"
    ELSE IF ge(abs_corr, Bound07) THEN "strong"
    ELSE IF ge(abs_corr, Bound05) THEN "moderate"
    ELSE IF ge(abs_corr, Bound03) THEN "weak"
    ELSE "very weak"

\* line 224 with 0 on the negative side: corr > 0
DirectionZeroNegative(c) ==
    IF gt(c, zero) THEN "positive" ELSE "negative"

\* line 224: "正相關" if corr >= 0 else "負相關"
Direction(c) ==
    IF ge(c, zero) THEN "positive" ELSE "negative"

\* format_correlation_strength(corr): the two parts of the string returned
format_correlation_strength(c) ==
    [strength |-> Strength(abs(c)), direction |-> Direction(c)]

\* a call of format_correlation_strength
FormatCorrelationStrength(c) ==
    /\ ret' = [op |-> "format_correlation_strength", corr |-> c,
               result |-> format_correlation_strength(c)]
    /\ UNCHANGED <<stock_prices, stock_list, now, history, buttons, threads>>

\* the largest square, in hundredths, of a coefficient given to the function
MaxSquare == 105

\* the coefficients given: every r with 100 * r^2 a whole number up to
\* MaxSquare, of either sign, and NaN
StrengthInputs ==
    {Coefficient(n, 100) : n \in (0 - MaxSquare)..MaxSquare} \cup {np_nan}

NextStrength == \E c \in StrengthInputs : FormatCorrelationStrength(c)

SpecStrength == Init /\ [][NextStrength]_vars

----------------------------------------------------------------------------
\* Properties of format_correlation_strength

\* the coefficient with the other sign
Negated(c) == Coefficient(0 - c.num, c.den)

\* 100 * c^2 for a coefficient in hundredths
Square100(c) == IF c.num < 0 THEN 0 - c.num ELSE c.num

\* C23: for a coefficient c that is a number, the strength is "very strong"
\* exactly when |c| >= 0.9, "strong" when 0.7 <= |c| < 0.9, "moderate" when
\* 0.5 <= |c| < 0.7, "weak" when 0.3 <= |c| < 0.5 and "very weak" below; the
\* direction is "positive" when c >= 0, 0 included, and "negative" when
\* c < 0; c and -c get the same strength.
C23_StrengthBands ==
    (ret.op = "format_correlation_strength" /\ ret.corr.den = 100) =>
       LET sq == Square100(ret.corr)
           s == ret.result.strength
       IN  /\ s = "very strong" <=> sq >= 81
           /\ s = "strong" <=> (49 <= sq /\ sq < 81)
           /\ s = "moderate" <=> (25 <= sq /\ sq < 49)
           /\ s = "weak" <=> (9 <= sq /\ sq < 25)
           /\ s = "very weak" <=> sq < 9
           /\ ret.result.direction = "positive" <=> ret.corr.num >= 0
           /\ ret.result.direction = "negative" <=> ret.corr.num < 0
           /\ format_correlation_strength(Negated(ret.corr)).strength = s

\* C23 witness: a call with a coefficient exactly on a lower bound of a band,
\* -0.7, labelled strong and negative
C23_Witness ==
    /\ ret.op = "format_correlation_strength"
    /\ ret.corr = Coefficient(0 - 49, 100)
    /\ ret.result = [strength |-> "strong", direction |-> "negative"]

\* the coefficient 0.0 is labelled very weak and positive
C23_ZeroIsPositive ==
    /\ ret.op = "format_correlation_strength"
    /\ ret.corr = Coefficient(0, 100)
    /\ ret.result = [strength |-> "very weak", direction |-> "positive"]

----------------------------------------------------------------------------
\* data_updater.py: DataUpdater.clean_old_data, and the core operations taken
\* together

\* the extra days clean_old_data keeps (line 183)
RetentionMargin == 30

\* lines 183-189 deleting the rows up to the cutoff: date <= ?
clean_old_data_through_cutoff(table, symbol, keep_days, today) ==
    LET cutoff_date == AddDays(today, 0 - (keep_days + RetentionMargin))
    IN  [r \in {x \in DOMAIN table :
                   ~(x.symbol = symbol /\ x.date <= strftime(cutoff_date))} |-> table[r]]

\* lines 183-189 without the condition on the symbol
clean_old_data_every_symbol(table, symbol, keep_days, today) ==
    LET cutoff_date == AddDays(today, 0 - (keep_days + RetentionMargin))
    IN  [r \in {x \in DOMAIN table : ~(x.date < strftime(cutoff_date))} |-> table[r]]

\* clean_old_data(symbol, keep_days) at the time today: DELETE FROM
\* stock_prices WHERE symbol = ? AND date < ?, the cutoff formatted as a date
clean_old_data(table, symbol, keep_days, today) ==
    LET cutoff_date == AddDays(today, 0 - (keep_days + RetentionMargin))
    IN  [r \in {x \in DOMAIN table :
                   ~(x.symbol = symbol /\ x.date < strftime(cutoff_date))} |-> table[r]]

\* a call of clean_old_data; rowcount: the rows the DELETE removed, as the
\* cursor counts them
CleanOldData(symbol, keep_days) ==
    \E cleaned \in {clean_old_data(stock_prices, symbol, keep_days, now)} :
        /\ stock_prices' = cleaned
        /\ ret' = [op |-> "clean_old_data", symbol |-> symbol, keep_days |-> keep_days,
                   rowcount |-> BagCardinality(stock_prices) - BagCardinality(cleaned)]
        /\ UNCHANGED <<stock_list, now, history, buttons, threads>>

\* the registrations made by hand
CoreRegistrations == {<<Code1 \o TW, "B", "TPEX">>, <<Code1 \o TW, "A", "TW">>}
\* the lists given to the batch
CoreLists == {<<<<Code1 \o TW, "A">>>>, <<<<Code1 \o TWO, "B">>, <<Code1 \o TW, "A">>>>}
\* the store works, or update_last_update fails for the listed symbol
CoreEnvs == {[s \in StockSymbols |-> Env(FALSE, "none")],
             [s \in StockSymbols |-> IF s \in Listed THEN Env(FALSE, "update_last_update")
                                     ELSE Env(FALSE, "none")]}
\* keep_days: the default, and the values that put the cutoff on the oldest
\* stored day and on the day after it
KeepDays == {DefaultDays, DefaultDays + InitialMargin - RetentionMargin,
             DefaultDays + InitialMargin - RetentionMargin - 1}
CoreFeeds == TpexFeeds \ {<<>>}
\* a frame for a day the provider has a bar of, with another close
CoreFrames == {<<[date |-> Dt(Day0 - 1, FALSE), Close |-> 11]>>}

\* an empty store at the start of a day; the provider has the history of
\* both symbols
InitCore ==
    /\ stock_prices = EmptyBag
    /\ stock_list = EmptyBag
    /\ now = Dt(Day0, FALSE)
    /\ history = [s \in PairSymbols |-> IF s \in StockSymbols THEN BaseHistory ELSE {}]
    /\ ret = [op |-> "init"]
    /\ buttons = AllNormal
    /\ threads = EmptyBag

NextCore ==
    \/ \E r \in CoreRegistrations : AddStockToList(r[1], r[2], r[3])
    \/ \E s \in StockSymbols, raises \in BOOLEAN : UpdateStock(s, DefaultDays, raises)
    \/ \E list \in CoreLists, envs \in CoreEnvs : UpdateAllStocks(list, DefaultDays, envs)
    \/ \E s \in Listed, keep_days \in KeepDays : CleanOldData(s, keep_days)
    \/ \E data \in CoreFeeds : TpexUpdateSingleDate(Dt(Day0, FALSE), data)
    \/ GetFullSymbol(Code1, "empty", "data")
    \/ CalculateTwoStocksCorrelation(Code1, Code1 \o TWO, TRUE, "data", "empty",
                                     Env(FALSE, "none"))
    \/ \E df \in CoreFrames, source \in {"TWSE", "TPEX"} :
          InsertStockPrices(Code1 \o TW, df, source)
    \/ Tick

SpecCore == InitCore /\ [][NextCore]_vars

CoreTypeOK == ret.op \in {"init", "add_stock_to_list", "update_stock", "update_all_stocks",
                          "clean_old_data", "update_single_date", "get_full_symbol",
                          "insert_stock_prices",
                          "calculate_two_stocks_correlation"}

----------------------------------------------------------------------------
\* Properties of the registry and of clean_old_data

\* the symbols a step registers: the one of a call of add_stock_to_list, the
\* ones of the quotes of a TPEX update, the ones of the list of a batch
RegisteredBy(r) ==
    IF r.op = "add_stock_to_list" THEN {r.symbol}
    ELSE IF r.op = "update_single_date" THEN {r.data[i].symbol : i \in 1..Len(r.data)}
    ELSE IF r.op = "update_all_stocks"
         THEN {r.events[i][2] : i \in {j \in 1..Len(r.events) : r.events[j][1] = "add_stock_to_list"}}
    ELSE {}

\* the batch of the step ran update_stock for the symbol with the result True
UpdatedBy(r, symbol) ==
    /\ r.op = "update_all_stocks"
    /\ \E i \in 1..Len(r.events) : r.events[i] = Attempted(symbol, TRUE)

\* C24: a step that calls add_stock_to_list for a symbol the registry holds
\* leaves the registry with one record of the symbol, of the same name and
\* market, whatever name and market the call gives and whichever of the
\* direct call, the batch updater and the TPEX updater makes it; the last
\* update date of the record is unchanged too, unless the batch then ran
\* update_stock for the symbol with success.
C24_RegisterIsInsertIfAbsent ==
    [][ret' # ret =>
          \A r \in DOMAIN stock_list :
             r.symbol \in RegisteredBy(ret') =>
                /\ SymbolCount(stock_list', r.symbol) = 1
                /\ \E q \in DOMAIN stock_list' :
                      /\ q.symbol = r.symbol
                      /\ q.name = r.name
                      /\ q.market = r.market
                      /\ ~UpdatedBy(ret', r.symbol) => q.last_update = r.last_update]_vars

\* C24 witness: a symbol registered with a last update date is registered
\* again by hand with another name and another market
C24_Witness ==
    /\ ret.op = "add_stock_to_list"
    /\ \E q \in DOMAIN stock_list :
          /\ q.symbol = ret.symbol
          /\ q.name # ret.name
          /\ q.market # ret.market
          /\ q.last_update # <<>>

\* a symbol registered by the TPEX updater is registered by it again under
\* another name
C24_TpexAgainReached ==
    /\ ret.op = "update_single_date"
    /\ \E q \in DOMAIN stock_list, i \in 1..Len(ret.data) :
          /\ q.symbol = ret.data[i].symbol
          /\ q.name # ret.data[i].name

\* a symbol registered by hand is registered again by the batch updater
\* under another name and market
C24_BatchAgainReached ==
    /\ ret.op = "update_all_stocks"
    /\ \E q \in DOMAIN stock_list, i \in 1..Len(ret.stock_list) :
          /\ q.symbol = ret.stock_list[i][1]
          /\ q.name # ret.stock_list[i][2]
          /\ q.market # "TW"

\* the provider has a bar in the window the next update_stock of the symbol
\* asks for: from the day after the latest stored day, or days + 60 days
\* back from now if no day is stored, up to now
ProviderHasNewBars(symbol) ==
    LET stored == StoredDates(stock_prices, symbol)
        from == IF stored = {} THEN AddDays(now, 0 - (DefaultDays + InitialMargin))
                ELSE Dt(MaxDay(stored) + 1, FALSE)
    IN  \E p \in history[symbol] :
           DtLE(from, Dt(p.date, FALSE)) /\ DtLE(Dt(p.date, FALSE), now)

\* the step ran update_stock for the symbol, the provider gave bars and the
\* run returned True
RanFetch(r, symbol) ==
    \/ /\ r.op = "update_stock"
       /\ r.symbol = symbol
       /\ r.result
       /\ r.fetch # <<>>
    \/ /\ r.op \in {"update_all_stocks", "calculate_two_stocks_correlation"}
       /\ \E i \in 1..Len(r.events) : r.events[i] = Attempted(symbol, TRUE)
       /\ ProviderHasNewBars(symbol)

\* C25: no step of the core operations (add_stock_to_list, update_stock,
\* update_all_stocks, clean_old_data, the TPEX update, get_full_symbol,
\* calculate_two_stocks_correlation) removes a record of the registry, so
\* the number of records never decreases; and the last update date of a
\* record changes only in a step that ran update_stock for its symbol with a
\* non-empty fetch and the result True, to the date of that run.
C25_RegistryOnlyGrows ==
    [][ret' # ret =>
          /\ BagCardinality(stock_list') >= BagCardinality(stock_list)
          /\ \A r \in DOMAIN stock_list :
                \E q \in DOMAIN stock_list' :
                   /\ q.symbol = r.symbol
                   /\ stock_list'[q] = stock_list[r]
                   /\ q.last_update # r.last_update =>
                         /\ RanFetch(ret', r.symbol)
                         /\ q.last_update = <<strftime(now)>>]_vars

\* C25 witness: update_stock returned True without asking the provider, for a
\* registered symbol with stored points, and the record has no last update
\* date: the run that found nothing to fetch did not set it
C25_Witness ==
    /\ ret.op = "update_stock"
    /\ ret.result
    /\ ret.fetch = <<>>
    /\ HasPoint(stock_prices, ret.symbol)
    /\ \E q \in DOMAIN stock_list : q.symbol = ret.symbol /\ q.last_update = <<>>

\* a record has got its last update date in a batch
C25_MarkedReached ==
    /\ ret.op = "update_all_stocks"
    /\ \E q \in DOMAIN stock_list : q.last_update = <<strftime(now)>>

\* clean_old_data has deleted points of a registered symbol and the registry
\* holds the record, with its last update date
C25_CleanedReached ==
    /\ ret.op = "clean_old_data"
    /\ SymbolCount(stock_prices, ret.symbol) = 1
    /\ \E q \in DOMAIN stock_list : q.symbol = ret.symbol /\ q.last_update # <<>>

\* C26: a call clean_old_data(symbol, keep_days) removes from stock_prices
\* exactly the rows of the symbol dated before the day of now less
\* keep_days + 30 days: the rows of the symbol dated that day or later and
\* the rows of every other symbol stay as they are, and stock_list is
\* unchanged; and no call of update_stock or update_all_stocks removes the
\* row of a stored (symbol, date).
C26_CleanDeletesOnlyOldOfSymbol ==
    [][ret' # ret =>
          /\ ret'.op = "clean_old_data" =>
                LET cutoff == now.day - (ret'.keep_days + 30)
                    old == {r \in DOMAIN stock_prices :
                               r.symbol = ret'.symbol /\ r.date < cutoff}
                IN  /\ DOMAIN stock_prices' = DOMAIN stock_prices \ old
                    /\ \A r \in DOMAIN stock_prices' : stock_prices'[r] = stock_prices[r]
                    /\ stock_list' = stock_list
          /\ ret'.op \in {"update_stock", "update_all_stocks"} =>
                \A r \in DOMAIN stock_prices :
                   KeyCount(stock_prices', r.symbol, r.date) = 1]_vars

\* C26 witness: a call that removed a row of its symbol and left it a later
\* one, while another symbol keeps a row older than the cutoff
C26_Witness ==
    /\ ret.op = "clean_old_data"
    /\ ret.rowcount >= 1
    /\ \E r \in DOMAIN stock_prices :
          r.symbol = ret.symbol /\ r.date >= now.day - (ret.keep_days + 30)
    /\ \E r \in DOMAIN stock_prices :
          r.symbol # ret.symbol /\ r.date < now.day - (ret.keep_days + 30)

\* a call after 00:00 that left the row dated the very day of the cutoff
C26_CutoffDayKeptReached ==
    /\ ret.op = "clean_old_data"
    /\ now.frac
    /\ \E r \in DOMAIN stock_prices :
          r.symbol = ret.symbol /\ r.date = now.day - (ret.keep_days + 30)

----------------------------------------------------------------------------
\* database.py: insert_stock_prices on frames with rows that cannot be stored

\* the number of days a frame given to insert_stock_prices may cover
MaxFrame == 3

FrameDates == (Day0 - MaxFrame)..(Day0 - 1)

\* a DataFrame with the closes of some of the days, ascending by date
FrameOf(closes) ==
    LET bars == Ascending({[date |-> d, Close |-> closes[d]] : d \in DOMAIN closes})
    IN  [i \in 1..Len(bars) |-> [date |-> strptime(bars[i].date), Close |-> bars[i].Close]]

\* every frame over the days whose closes are 10 or NaN
InsertFrames ==
    {FrameOf(c) : c \in UNION {[days -> ProviderCloses] : days \in SUBSET FrameDates}}

\* a store that holds the close 11 for some of the days
InitInsert ==
    /\ \E c \in UNION {[days -> {11}] : days \in SUBSET FrameDates} :
          stock_prices = SetToBag(SeriesRows(Code1 \o TW, c))
    /\ stock_list = EmptyBag
    /\ now = Dt(Day0, FALSE)
    /\ history = [s \in StockSymbols |-> IF s \in Listed THEN BaseHistory ELSE {}]
    /\ ret = [op |-> "init"]
    /\ buttons = AllNormal
    /\ threads = EmptyBag

NextInsert ==
    \E df \in InsertFrames, source \in {"TWSE", "TPEX"} :
        InsertStockPrices(Code1 \o TW, df, source)

SpecInsert == InitInsert /\ [][NextInsert]_vars

\* the rows of the frame whose execute raises: the close is NaN, bound as
\* NULL to a NOT NULL column
Raising(df) == {i \in 1..Len(df) : df[i].Close = NaN}

\* C27: after insert_stock_prices(symbol, df, source), for every row of df
\* whose write does not raise the store holds that close, under that source,
\* for the symbol and the date of the row, rows written before a raising
\* one and after it alike; a row whose write raises changes nothing: the
\* store holds for its date what it held before; and so does every date that
\* is not in df.  The call completes: it has gone through all the rows.
C27_RaisingPointSkipped ==
    [][(ret' # ret /\ ret'.op = "insert_stock_prices") =>
          \A df \in {ret'.df} :
             /\ \A i \in 1..Len(df) \ Raising(df) :
                   /\ PriceRow(ret'.symbol, strftime(df[i].date), df[i].Close, ret'.source)
                         \in DOMAIN stock_prices'
                   /\ KeyCount(stock_prices', ret'.symbol, strftime(df[i].date)) = 1
             /\ \A r \in DOMAIN stock_prices \cup DOMAIN stock_prices' :
                   (\A i \in 1..Len(df) \ Raising(df) :
                        ~(r.symbol = ret'.symbol /\ r.date = strftime(df[i].date)))
                      => /\ r \in DOMAIN stock_prices
                         /\ r \in DOMAIN stock_prices'
                         /\ stock_prices'[r] = stock_prices[r]]_vars

\* C27 witness: a frame of three rows whose second write raises; the first
\* and the third row are stored, the date of the second holds no row
C27_Witness ==
    /\ ret.op = "insert_stock_prices"
    /\ Len(ret.df) = 3
    /\ Raising(ret.df) = {2}
    /\ \A i \in {1, 3} :
          PriceRow(ret.symbol, strftime(ret.df[i].date), ret.df[i].Close, ret.source)
             \in DOMAIN stock_prices
    /\ KeyCount(stock_prices, ret.symbol, strftime(ret.df[2].date)) = 0

\* a frame whose first write raises on a date the store holds: the row of
\* that date keeps its close, the rows after it are stored
C27_RaisingFirstKeepsStoredReached ==
    /\ ret.op = "insert_stock_prices"
    /\ Len(ret.df) >= 2
    /\ Raising(ret.df) = {1}
    /\ PriceRow(ret.symbol, strftime(ret.df[1].date), 11, "TWSE") \in DOMAIN stock_prices
    /\ PriceRow(ret.symbol, strftime(ret.df[2].date), 10, ret.source) \in DOMAIN stock_prices

----------------------------------------------------------------------------
\* Properties of calculate_correlation: the truncation before the join

\* the sum of f over a set of days
RECURSIVE SumOver(_, _)
SumOver(dates, f) ==
    IF dates = {} THEN 0
    ELSE LET d == CHOOSE x \in dates : TRUE
         IN  f[d] + SumOver(dates \ {d}, f)

\* Pearson's coefficient of the stored closes of two symbols over a set of
\* days both have a point on, NaN where it is not defined
PearsonOver(symbol1, symbol2, dates) ==
    LET x == [d \in dates |-> CloseOn(symbol1, d)]
        y == [d \in dates |-> CloseOn(symbol2, d)]
        n == Cardinality(dates)
        sxy == n * SumOver(dates, [d \in dates |-> x[d] * y[d]])
                  - SumOver(dates, x) * SumOver(dates, y)
        sxx == n * SumOver(dates, [d \in dates |-> x[d] * x[d]])
                  - SumOver(dates, x) * SumOver(dates, x)
        syy == n * SumOver(dates, [d \in dates |-> y[d] * y[d]])
                  - SumOver(dates, y) * SumOver(dates, y)
    IN  IF n < 2 \/ sxx = 0 \/ syy = 0 THEN np_nan
        ELSE Coefficient(Sign(sxy) * sxy * sxy, sxx * syy)

\* two coefficients are the same number, or both NaN
SameCoefficient(a, b) ==
    IF isna(a) \/ isna(b) THEN isna(a) /\ isna(b)
    ELSE a.num * b.den = b.num * a.den

\* the days both symbols have a stored point on
SharedDates(symbol1, symbol2) ==
    StoredDates(stock_prices, symbol1) \cap StoredDates(stock_prices, symbol2)

\* C28: the result of calculate_correlation(data1, data2, days) is decided
\* by the days that are among the last `days` stored days of the first
\* symbol and among the last `days` stored days of the second: it is NaN if
\* these days are fewer than ceil(0.7 * days), however many days the two
\* whole series share, and otherwise it is Pearson's coefficient over these
\* days alone.
C28_TruncateThenJoin ==
    ret.op = "calculate_correlation" =>
       \A joined \in {JoinedDates(ret.symbol1, ret.symbol2, ret.days)} :
          /\ joined \subseteq SharedDates(ret.symbol1, ret.symbol2)
          /\ Cardinality(joined) < CeilOfGate(ret.days) => isna(ret.result)
          /\ GatesPassed(ret.symbol1, ret.symbol2, ret.days) =>
                SameCoefficient(ret.result, PearsonOver(ret.symbol1, ret.symbol2, joined))

\* C28 witness: the two series share a day that is outside the tail of one of
\* them; the gates are passed and the result is a number that is not the
\* coefficient over all the shared days
C28_Witness ==
    /\ ret.op = "calculate_correlation"
    /\ SharedDates(ret.symbol1, ret.symbol2)
          # JoinedDates(ret.symbol1, ret.symbol2, ret.days)
    /\ ~isna(ret.result)
    /\ ~SameCoefficient(ret.result,
                        PearsonOver(ret.symbol1, ret.symbol2,
                                    SharedDates(ret.symbol1, ret.symbol2)))

\* the shared days are enough for the gate, the shared days within both
\* tails are not, and the result is NaN
C28_GateCountsTailsReached ==
    /\ ret.op = "calculate_correlation"
    /\ Cardinality(SharedDates(ret.symbol1, ret.symbol2)) >= CeilOfGate(ret.days)
    /\ Cardinality(LastDates(StoredDates(stock_prices, ret.symbol1), ret.days))
          >= CeilOfGate(ret.days)
    /\ Cardinality(LastDates(StoredDates(stock_prices, ret.symbol2), ret.days))
          >= CeilOfGate(ret.days)
    /\ Cardinality(JoinedDates(ret.symbol1, ret.symbol2, ret.days)) < CeilOfGate(ret.days)
    /\ ~isna(PearsonOver(ret.symbol1, ret.symbol2, SharedDates(ret.symbol1, ret.symbol2)))
    /\ isna(ret.result)

----------------------------------------------------------------------------
\* Properties of the source tag

\* the tag of the feed a step writes with: 'TWSE' for update_stock, by
\* whichever caller, 'TPEX' for the TPEX updater, the source given for a
\* direct insert_stock_prices; <<>> for a step that writes no point
FeedTag(r) ==
    IF r.op \in {"update_stock", "update_all_stocks", "calculate_two_stocks_correlation"}
    THEN <<"TWSE">>
    ELSE IF r.op = "update_single_date" THEN <<"TPEX">>
    ELSE IF r.op = "insert_stock_prices" THEN <<r.source>>
    ELSE <<>>

\* the (symbol, date) keys a step is known to write: the quotes of a TPEX
\* update, the rows of a direct insert that have a close, the bars with a
\* close that a successful update_stock got from the provider
WrittenKeys(r) ==
    IF r.op = "update_single_date"
    THEN {<<r.data[i].symbol, strftime(r.date)>> : i \in 1..Len(r.data)}
    ELSE IF r.op = "insert_stock_prices"
    THEN {<<r.symbol, strftime(r.df[i].date)>> : i \in 1..Len(r.df) \ Raising(r.df)}
    ELSE IF r.op = "update_stock" /\ r.result /\ r.fetch # <<>>
    THEN {<<r.symbol, p.date>> :
             p \in {b \in history[r.symbol] :
                       /\ b.Close # NaN
                       /\ DtLE(r.fetch[1].start, Dt(b.date, FALSE))
                       /\ DtLE(Dt(b.date, FALSE), r.fetch[1].end)}}
    ELSE {}

\* C29: every stored point of a symbol of the primary venue
\* (.TW) carries the tag 'TWSE' and every stored point of a symbol of the
\* secondary venue (.TWO, or a bare code of the TPEX feed) carries the tag
\* 'TPEX', whichever updater wrote it.
C29_TagIsVenueOfSymbol ==
    \A r \in DOMAIN stock_prices :
       r.source = IF EndsWith(r.symbol, TW) THEN "TWSE" ELSE "TPEX"

\* what the code does instead: the tag of a stored point is that of the
\* updater that wrote it last, not the venue of its symbol: every point a step writes or
\* overwrites carries 'TWSE' if the step ran update_stock, whatever the
\* suffix of the symbol, 'TPEX' if it is a TPEX update, and the source given
\* if it is a direct insert_stock_prices; the points a step does not write
\* keep their tag.
C29_TagIsUpdaterThatWroteLast ==
    [][ret' # ret =>
          /\ \A r \in DOMAIN stock_prices' \ DOMAIN stock_prices :
                <<r.source>> = FeedTag(ret')
          /\ \A k \in WrittenKeys(ret') :
                \E r \in DOMAIN stock_prices' :
                   r.symbol = k[1] /\ r.date = k[2] /\ <<r.source>> = FeedTag(ret')]_vars

\* the case C29 fails in is reached: update_stock has stored points of a symbol of the secondary
\* venue, and they carry the tag of the primary feed
C29_SecondaryUnderPrimaryTagReached ==
    /\ ret.op = "update_stock"
    /\ EndsWith(ret.symbol, TWO)
    /\ ret.result
    /\ ret.fetch # <<>>
    /\ HasPoint(stock_prices, ret.symbol)
    /\ \A r \in DOMAIN stock_prices : r.symbol = ret.symbol => r.source = "TWSE"

\* a point stored by update_stock under 'TWSE' has been overwritten by a
\* write under 'TPEX' and carries 'TPEX', next to an older point of the
\* symbol that keeps 'TWSE'
C29_OverwrittenReached ==
    /\ ret.op = "insert_stock_prices"
    /\ ret.source = "TPEX"
    /\ \E r \in DOMAIN stock_prices :
          r.symbol = ret.symbol /\ r.date = strftime(ret.df[1].date) /\ r.source = "TPEX"
    /\ \E r \in DOMAIN stock_prices :
          r.symbol = ret.symbol /\ r.date < strftime(ret.df[1].date) /\ r.source = "TWSE"

----------------------------------------------------------------------------
\* tpex_updater.py: TPEXUpdater.update_date_range and update_recent_days

\* a call of update_single_date by the loop, for the log of the run
Visited(date) == <<"update_single_date", date>>

\* line 99, results[date_str] = count: a dictionary keeps the place of a
\* key it has and takes a new key at the end
Put(results, date_str, count) ==
    IF \E i \in DOMAIN results : results[i].date = date_str
    THEN [i \in DOMAIN results |->
             IF results[i].date = date_str
             THEN [date |-> date_str, count |-> count] ELSE results[i]]
    ELSE Append(results, [date |-> date_str, count |-> count])

\* lines 96-104: update_single_date(current_date), its count put in the
\* results, and the delay if delay > 0 and current_date < end_date; data:
\* what the fetcher gives for the date
CountedDate(st, current_date, end_date, delay, data) ==
    LET done == StoreQuotes([prices |-> st.prices, list |-> st.list, count |-> 0],
                            current_date, data)
    IN  [prices |-> done.prices, list |-> done.list,
         results |-> Put(st.results, strftime(current_date), done.count),
         events |-> st.events \o <<Visited(current_date)>>
                    \o (IF delay > 0 /\ DtLT(current_date, end_date)
                        THEN <<Slept>> ELSE <<>>)]

\* lines 95-106: while current_date <= end_date, a day at a time; feed: what
\* the fetcher gives for a day
RECURSIVE DateLoop(_, _, _, _, _)
DateLoop(st, current_date, end_date, delay, feed) ==
    IF ~DtLE(current_date, end_date) THEN st
    ELSE CHOOSE r \in {DateLoop(after, AddDays(current_date, 1), end_date, delay, feed) :
                          after \in {CountedDate(st, current_date, end_date, delay,
                                                 feed[current_date.day])}} : TRUE

\* lines 75-108: update_date_range(start_date, end_date, delay)
update_date_range(tables, start_date, end_date, delay, feed) ==
    DateLoop([prices |-> tables.prices, list |-> tables.list,
              results |-> <<>>, events |-> <<>>],
             start_date, end_date, delay, feed)

\* line 129: sum(results.values())
RECURSIVE SumValues(_)
SumValues(results) ==
    IF results = <<>> THEN 0 ELSE Head(results).count + SumValues(Tail(results))

\* lines 110-132: the dates from days before end_date = datetime.now() to
\* end_date; total: the sum of the counts of the dates
update_recent_days(tables, days, end_date, delay, feed) ==
    LET r == CHOOSE x \in {update_date_range(tables, AddDays(end_date, 0 - days),
                                             end_date, delay, feed)} : TRUE
    IN  [prices |-> r.prices, list |-> r.list, total |-> SumValues(r.results)]

----------------------------------------------------------------------------
\* main_gui.py: StockCorrelationApp, the four handlers and their threads

\* days=120 of lines 201 and 244
GuiDays == 120
\* days=30 of line 285
RecentDays == 30
\* delay=1.0 of line 285
GuiDelay == 1
\* top_n=20 of line 329
GuiTopN == 20

\* the most worker threads alive at once in the model
MaxThreads == 3

\* what get_sample_stocks() and get_all_taiwan_stocks() give
SampleStocks == <<<<Code1 \o TW, "A">>>>
AllTaiwanStocks == <<<<Code1 \o TW, "A">>, <<Code1 \o TWO, "B">>>>

\* the provider and the store fail for no symbol
NoFault == [s \in StockSymbols |-> Env(FALSE, "none")]

\* the TPEX fetcher has one quote, for the day before Day0
GuiFeed ==
    [d \in (Day0 - RecentDays)..(Day0 + MaxDays) |->
        IF d = Day0 - 1 THEN <<Quote(Code1, "A", 11)>> ELSE <<>>]

\* what the entry holds when the analysis button is pressed, stripped
Entries == {<<>>, Code1}

\* the symbols find_correlated_stocks ranks against the target
GuiUniverse == <<Code1 \o TW, Code1 \o TWO, Code1>>

\* a worker thread: its target, the symbol it analyses (<<>> for an update)
\* and where it is: "try" before its work on the store, then the button its
\* finally block sets next
Thread(target, symbol, pc) == [target |-> target, symbol |-> symbol, pc |-> pc]

\* the statement after the one that sets button b in a finally block: the
\* next button, or "end" after the last
AfterButton(b) ==
    LET i == CHOOSE j \in DOMAIN ButtonOrder : ButtonOrder[j] = b
    IN  IF i < Len(ButtonOrder) THEN ButtonOrder[i + 1] ELSE "end"

\* a thread moves from where it is to pc; at "end" it is over
Moved(t, pc) ==
    IF pc = "end" THEN threads (-) SetToBag({t})
    ELSE (threads (-) SetToBag({t})) (+) SetToBag({[t EXCEPT !.pc = pc]})

\* lines 212-224, 256-268, 297-309, 356-368: the handler disables the four
\* buttons and starts its thread
StartThread(target, symbol) ==
    /\ BagCardinality(threads) < MaxThreads
    /\ buttons' = AllDisabled
    /\ threads' = threads (+) SetToBag({Thread(target, symbol, "try")})
    /\ ret' = [op |-> target, symbol |-> symbol, started |-> TRUE]
    /\ UNCHANGED <<stock_prices, stock_list, now, history>>

\* lines 229-233, 273-277, 315-317: the handler returns without a thread
NoThread(target, symbol) ==
    /\ ret' = [op |-> target, symbol |-> symbol, started |-> FALSE]
    /\ UNCHANGED <<stock_prices, stock_list, now, history, buttons, threads>>

\* lines 193-224: the sample button is pressed (a disabled button runs no
\* command)
UpdateSampleStocksPressed ==
    /\ buttons["update_sample_btn"] = "normal"
    /\ StartThread("update_sample_stocks", <<>>)

\* lines 226-268: the full-update button is pressed; yes: the answer to the
\* confirmation dialog
UpdateAllStocksPressed(yes) ==
    /\ buttons["update_all_btn"] = "normal"
    /\ IF yes THEN StartThread("update_all_stocks", <<>>)
       ELSE NoThread("update_all_stocks", <<>>)

\* lines 270-309: the TPEX button is pressed
UpdateTpexStocksPressed(yes) ==
    /\ buttons["update_tpex_btn"] = "normal"
    /\ IF yes THEN StartThread("update_tpex_stocks", <<>>)
       ELSE NoThread("update_tpex_stocks", <<>>)

\* lines 311-368: the analysis button is pressed with symbol in the entry
AnalyzeCorrelationPressed(symbol) ==
    /\ buttons["analyze_btn"] = "normal"
    /\ IF symbol # <<>> THEN StartThread("analyze_correlation", symbol)
       ELSE NoThread("analyze_correlation", symbol)

\* the store fails for no symbol, or when the first symbol is registered,
\* which update_all_stocks lets escape
GuiEnvs ==
    {NoFault,
     [s \in StockSymbols |-> IF s = Code1 \o TW THEN Env(FALSE, "add_stock_to_list")
                             ELSE Env(FALSE, "none")]}

\* a try block whose exception would end the thread: no except clause and
\* the four statements after the try block instead of in a finally block
AfterTryUncaught(raised) == IF raised THEN "end" ELSE ButtonOrder[1]

\* lines 196-214: where a thread is after its try block; raised: whether the
\* try block raised. The except clause catches every Exception and the
\* finally block follows in both cases
AfterTry(raised) == ButtonOrder[1]

\* lines 196-208 and 236-252: the try block of an update thread, which runs
\* update_all_stocks over list
BatchThread(target, list) ==
    \E t \in BagToSet(threads) :
       /\ t.target = target
       /\ t.pc = "try"
       /\ \E envs \in GuiEnvs :
          \E r \in {update_all_stocks([prices |-> stock_prices, list |-> stock_list],
                                     list, GuiDays, now, envs)} :
             /\ stock_prices' = r.prices
             /\ stock_list' = r.list
             /\ ret' = [op |-> "update_thread", target |-> target,
                        raised |-> r.raised, printed |-> r.printed]
             /\ threads' = Moved(t, AfterTry(r.raised))
       /\ UNCHANGED <<now, history, buttons>>

\* lines 280-293: the try block of the TPEX thread
TpexThread ==
    \E t \in BagToSet(threads) :
       /\ t.target = "update_tpex_stocks"
       /\ t.pc = "try"
       /\ \E r \in {update_recent_days([prices |-> stock_prices, list |-> stock_list],
                                      RecentDays, now, GuiDelay, GuiFeed)} :
             /\ stock_prices' = r.prices
             /\ stock_list' = r.list
             /\ ret' = [op |-> "update_thread", target |-> t.target,
                        raised |-> FALSE, count |-> r.total]
       /\ threads' = Moved(t, AfterTry(FALSE))
       /\ UNCHANGED <<now, history, buttons>>

\* lines 320-352: the try block of the analysis thread; an exception of the
\* engine is caught and shown
AnalyzeThread ==
    \E t \in BagToSet(threads) :
       /\ t.target = "analyze_correlation"
       /\ t.pc = "try"
       /\ \E r \in {find_correlated_stocks(stock_prices, stock_list, t.symbol,
                                          GuiUniverse, GuiTopN, "empty", "empty")} :
             /\ ret' = [op |-> "analyze_thread", target |-> t.target,
                        symbol |-> t.symbol,
                        raised |-> r.raised, result |-> r.result]
             /\ threads' = Moved(t, AfterTry(r.raised))
       /\ UNCHANGED <<stock_prices, stock_list, now, history, buttons>>

\* lines 209-214, 253-258, 294-299, 353-358: one statement of a finally
\* block sets one button back to normal; after the last the thread is over
FinallyStatement ==
    \E t \in BagToSet(threads) :
       /\ t.pc \in Buttons
       /\ buttons' = [buttons EXCEPT ![t.pc] = "normal"]
       /\ threads' = Moved(t, AfterButton(t.pc))
       /\ ret' = [op |-> "finally", target |-> t.target, button |-> t.pc]
       /\ UNCHANGED <<stock_prices, stock_list, now, history>>

NextGui ==
    \/ UpdateSampleStocksPressed
    \/ \E yes \in BOOLEAN : UpdateAllStocksPressed(yes)
    \/ \E yes \in BOOLEAN : UpdateTpexStocksPressed(yes)
    \/ \E symbol \in Entries : AnalyzeCorrelationPressed(symbol)
    \/ BatchThread("update_sample_stocks", SampleStocks)
    \/ BatchThread("update_all_stocks", AllTaiwanStocks)
    \/ TpexThread
    \/ AnalyzeThread
    \/ FinallyStatement
    \/ Tick

SpecGui == Init /\ [][NextGui]_vars

----------------------------------------------------------------------------
\* Properties of the window's threads

\* the threads that have their work on the store ahead of them
AtWork == {t \in BagToSet(threads) : t.pc = "try"}

Writers == {"update_sample_stocks", "update_all_stocks", "update_tpex_stocks"}

\* the number of threads at work
WorkCount == BagCardinality([t \in AtWork |-> threads[t]])

\* C30: at most one worker is at work on the store at any time, and while a
\* worker is at work all four buttons are disabled.
C30_OneWorkerAtATime ==
    /\ WorkCount <= 1
    /\ AtWork # {} => buttons = AllDisabled

\* what the code does keep: a handler that starts a thread leaves every
\* button disabled, and it runs only when its button is enabled
C30_StartedWithButtonsDisabled ==
    [][BagCardinality(threads') > BagCardinality(threads) =>
          /\ buttons' = AllDisabled
          /\ \E b \in Buttons : buttons[b] = "normal"]_vars

\* two writers are at work on the store at once, with a button enabled
C30_TwoWritersReached ==
    /\ \E t \in AtWork, u \in AtWork :
          /\ t.target \in Writers
          /\ u.target \in Writers
          /\ (t # u \/ threads[t] > 1)
    /\ \E b \in Buttons : buttons[b] = "normal"

----------------------------------------------------------------------------
\* The window with its threads scheduled fairly

LiveTargets == {"update_sample_stocks", "analyze_correlation"}

\* the statement of the finally block of a thread of target that sets b
FinallyStatementOf(target, b) ==
    /\ FinallyStatement
    /\ ret'.target = target
    /\ ret'.button = b

\* the sample update and the analysis: a thread that writes and a thread
\* that reads, each with a try block that can raise
NextGuiLive ==
    \/ UpdateSampleStocksPressed
    \/ \E symbol \in Entries : AnalyzeCorrelationPressed(symbol)
    \/ BatchThread("update_sample_stocks", SampleStocks)
    \/ AnalyzeThread
    \/ FinallyStatement

\* a thread of target comes to the end of its try block: the step of
\* BatchThread or AnalyzeThread, told by what it does to the thread
LeavesTry(target) ==
    \E t \in BagToSet(threads), raised \in BOOLEAN :
       /\ t.target = target
       /\ t.pc = "try"
       /\ threads' = Moved(t, AfterTry(raised))

\* a thread that is alive runs its next statement sooner or later; the
\* presses are up to the user
ThreadsRun ==
    /\ \A target \in LiveTargets : WF_threads(LeavesTry(target))
    /\ \A target \in LiveTargets, b \in Buttons : WF_vars(FinallyStatementOf(target, b))

SpecGuiLive == Init /\ [][NextGuiLive]_vars /\ ThreadsRun

----------------------------------------------------------------------------
\* Properties of the finally blocks

\* a thread of target is in its try block
InTry(target) == \E t \in BagToSet(threads) : t.target = target /\ t.pc = "try"

\* the last statement of the finally block of a thread of target has run
FinallyDone(target) ==
    /\ ret.op = "finally"
    /\ ret.target = target
    /\ ret.button = ButtonOrder[Len(ButtonOrder)]

\* C31: a thread in its try block is followed by the last statement of the
\* finally block of a thread of its target, which has set the four buttons
\* back to normal one after the other, whether the try block raised or not;
\* and when no thread is alive every button is enabled.
C31_WorkerReenablesButtons ==
    /\ \A target \in LiveTargets : InTry(target) ~> FinallyDone(target)
    /\ [](threads = EmptyBag => buttons = AllNormal)

\* C31 witness: the try block of the last thread raised, its finally block
\* has run to the end, no thread is alive and every button is enabled
C31_Witness ==
    /\ FinallyDone("update_sample_stocks")
    /\ threads = EmptyBag
    /\ buttons = AllNormal
    /\ stock_list = EmptyBag
    /\ stock_prices = EmptyBag

\* the try block of an update thread has raised and the thread is in its
\* finally block
C31_RaisedUpdateReached ==
    /\ ret.op = "update_thread"
    /\ ret.raised
    /\ \E t \in BagToSet(threads) : t.target = ret.target /\ t.pc = ButtonOrder[1]

\* the ranking call has raised and the thread is in its finally block
C31_RaisedRankingReached ==
    /\ ret.op = "analyze_thread"
    /\ ret.raised
    /\ \E t \in BagToSet(threads) : t.target = ret.target /\ t.pc = ButtonOrder[1]

----------------------------------------------------------------------------
\* Properties of the quotes of the TPEX feed under get_full_symbol

\* the points the store holds for code under the tag of the TPEX feed
TpexPoints(code) ==
    {r \in DOMAIN stock_prices : r.symbol = code /\ r.source = "TPEX"}

\* get_stock_prices(symbol) gives the point of row
Returns(symbol, row) ==
    \E p \in {LatestFirst(stock_prices, symbol, DefaultDays)} :
       \E i \in DOMAIN p :
          p[i].date = strptime(row.date) /\ p[i].close_price = row.close_price

\* C32: when the store holds a quote that update_single_date stored for a
\* code, get_full_symbol of the code contacts no provider and gives a symbol
\* under which get_stock_prices returns the stored point.
C32_TpexQuoteResolvesFromCache ==
    [][(ret' # ret /\ ret'.op = "get_full_symbol") =>
          \A row \in TpexPoints(ret'.symbol) :
             /\ ret'.probes = <<>>
             /\ ret'.result # <<>>
             /\ Returns(ret'.result, row)]_vars

\* what the code does instead: update_single_date stores a quote under the
\* code as the feed gives it, without a suffix, and get_full_symbol gives
\* None or a symbol with a suffix, after cache lookups of the code with a
\* suffix only
C32_ResolvedIsSuffixed ==
    [][(ret' # ret /\ ret'.op = "get_full_symbol") =>
          /\ ret'.result # <<>> => EndsWith(ret'.result, TW) \/ EndsWith(ret'.result, TWO)
          /\ \A row \in TpexPoints(ret'.symbol) :
                ~EndsWith(row.symbol, TW) /\ ~EndsWith(row.symbol, TWO)]_vars

\* the case C32 fails in is reached: the store holds a TPEX quote of the
\* code, and get_full_symbol of the code asked the provider and gave a symbol
\* the store has no point of
C32_QuoteNotFoundReached ==
    /\ ret.op = "get_full_symbol"
    /\ TpexPoints(ret.symbol) # {}
    /\ ret.probes # <<>>
    /\ ret.result # <<>>
    /\ ~HasPoint(stock_prices, ret.result)

----------------------------------------------------------------------------
\* tpex_updater.py: a call of update_date_range

\* a call of update_date_range(start_date, end_date, delay); feed: what the
\* fetcher gives for a day
UpdateDateRange(start_date, end_date, delay, feed) ==
    \E r \in {update_date_range([prices |-> stock_prices, list |-> stock_list],
                               start_date, end_date, delay, feed)} :
        /\ stock_prices' = r.prices
        /\ stock_list' = r.list
        /\ ret' = [op |-> "update_date_range", start_date |-> start_date,
                   end_date |-> end_date, delay |-> delay, feed |-> feed,
                   events |-> r.events, result |-> r.results]
        /\ UNCHANGED <<now, history, buttons, threads>>

\* the most days between the first and the last day of a range
MaxRange == 2

\* the days a range starts or ends on, and the datetimes of these days
RangeDays == (Day0 - MaxRange)..Day0
RangeDates == {Dt(d, f) : d \in RangeDays, f \in BOOLEAN}

\* no delay, and the default delay of a second
RangeDelays == {0, 1}

\* the fetcher has a quote for the last day only, or for every day but the
\* last
RangeFeeds ==
    {[d \in RangeDays |-> IF d = Day0 THEN <<Quote(Code1, "A", 11)>> ELSE <<>>],
     [d \in RangeDays |-> IF d = Day0 THEN <<>> ELSE <<Quote(Code1, "A", 10)>>]}

NextRange ==
    \E start_date \in RangeDates, end_date \in RangeDates, delay \in RangeDelays,
       feed \in RangeFeeds :
        UpdateDateRange(start_date, end_date, delay, feed)

SpecRange == Init /\ [][NextRange]_vars

----------------------------------------------------------------------------
\* Properties of update_date_range

\* the calendar days from the day of start_date to the day of end_date,
\* ascending
RECURSIVE CalendarDays(_, _)
CalendarDays(first, last) ==
    IF first > last THEN <<>> ELSE <<first>> \o CalendarDays(first + 1, last)

\* the days of the calls of update_single_date of a run, in the order of
\* the calls
RECURSIVE VisitedDays(_)
VisitedDays(events) ==
    IF events = <<>> THEN <<>>
    ELSE IF Head(events)[1] = "update_single_date"
         THEN <<strftime(Head(events)[2])>> \o VisitedDays(Tail(events))
         ELSE VisitedDays(Tail(events))

\* every delay of a run stands between two calls of update_single_date
DelaysBetweenOnly(events) ==
    \A i \in DOMAIN events :
       events[i] = Slept =>
          /\ i > 1 /\ events[i - 1] # Slept
          /\ i < Len(events) /\ events[i + 1] # Slept

\* a delay stands between every two consecutive calls when delay > 0, and
\* there is none when delay = 0
DelaysAsAsked(events, delay) ==
    \A i \in DOMAIN events :
       (i < Len(events) /\ events[i] # Slept) =>
          (events[i + 1] = Slept <=> delay > 0)

\* C33: update_date_range(start, end) calls update_single_date once for
\* every calendar date from start to end, ascending, and returns one entry
\* for each of them, none when start > end; a delay stands only between two
\* consecutive dates, never after the last; a date without data does not
\* stop the loop.
C33_VisitsEveryDateOnce ==
    [][(ret' # ret /\ ret'.op = "update_date_range") =>
          \E days \in {IF DtLT(ret'.end_date, ret'.start_date) THEN <<>>
                       ELSE CalendarDays(strftime(ret'.start_date),
                                         strftime(ret'.end_date))} :
             /\ VisitedDays(ret'.events) = days
             /\ [i \in DOMAIN ret'.result |-> ret'.result[i].date] = days
             /\ DelaysBetweenOnly(ret'.events)]_vars

\* what the code does instead: the loop compares datetimes, so it visits the
\* days of start, start + 1 day, ... that are not later than end with the
\* time of day of start, and the delay follows every visit that is earlier
\* than end
C33_VisitsWhileNotLaterThanEnd ==
    [][(ret' # ret /\ ret'.op = "update_date_range") =>
          \E last \in {IF ret'.start_date.frac /\ ~ret'.end_date.frac
                       THEN strftime(ret'.end_date) - 1
                       ELSE strftime(ret'.end_date)} :
             /\ VisitedDays(ret'.events) = CalendarDays(strftime(ret'.start_date), last)
             /\ [i \in DOMAIN ret'.result |-> ret'.result[i].date]
                   = VisitedDays(ret'.events)
             /\ \A i \in DOMAIN ret'.result :
                   ret'.result[i].count = Len(ret'.feed[ret'.result[i].date])
             /\ ret'.start_date.frac = ret'.end_date.frac =>
                   /\ DelaysBetweenOnly(ret'.events)
                   /\ DelaysAsAsked(ret'.events, ret'.delay)]_vars

\* the case C33 fails in is reached: start is later in its day than end in
\* its own, and the day of end is not visited although it has a quote
C33_LastDateSkippedReached ==
    /\ ret.op = "update_date_range"
    /\ strftime(ret.start_date) < strftime(ret.end_date)
    /\ ret.feed[strftime(ret.end_date)] # <<>>
    /\ VisitedDays(ret.events) # <<>>
    /\ \A i \in DOMAIN ret.result : ret.result[i].date # strftime(ret.end_date)
    /\ stock_prices = EmptyBag

\* a run ends with a delay after its last date
C33_DelayAfterLastReached ==
    /\ ret.op = "update_date_range"
    /\ ret.events # <<>>
    /\ ret.events[Len(ret.events)] = Slept

\* a range over a date without data and a later date with data visits both
C33_EmptyDateDoesNotStopReached ==
    /\ ret.op = "update_date_range"
    /\ Len(ret.result) > 1
    /\ ret.result[1].count = 0
    /\ ret.result[Len(ret.result)].count > 0

----------------------------------------------------------------------------
\* tpex_updater.py: TPEXUpdater.update_single_date with a store that fails

\* what may go wrong while one quote is processed: conn.cursor() of
\* insert_stock_prices raises before a row is written, its cursor.execute
\* raises, which insert_stock_prices itself catches (database.py 96-97), or
\* add_stock_to_list raises
QuoteFaults == {"none", "cursor", "insert_stock_prices", "add_stock_to_list"}

\* lines 46-70 with success_count += 1 before the registration
QuoteBodyCountingFirst(st, date, stock, fault) ==
    LET df == <<[date |-> date, Close |-> stock.close_price]>>
        prices == IF fault = "insert_stock_prices" THEN st.prices
                  ELSE insert_stock_prices(st.prices, stock.symbol, df, "TPEX")
    IN  IF fault = "cursor" THEN st
        ELSE IF fault = "add_stock_to_list"
        THEN [st EXCEPT !.prices = prices, !.count = @ + 1]
        ELSE [prices |-> prices,
              list   |-> add_stock_to_list(st.list, stock.symbol, stock.name, "TPEX"),
              count  |-> st.count + 1]

\* lines 46-70: one quote inside the try; an exception that reaches the
\* except clause of line 68 is printed and the loop goes on
QuoteBody(st, date, stock, fault) ==
    LET df == <<[date |-> date, Close |-> stock.close_price]>>
        prices == IF fault = "insert_stock_prices" THEN st.prices
                  ELSE insert_stock_prices(st.prices, stock.symbol, df, "TPEX")
    IN  IF fault = "cursor" THEN st
        ELSE IF fault = "add_stock_to_list"
        THEN [st EXCEPT !.prices = prices]
        ELSE [prices |-> prices,
              list   |-> add_stock_to_list(st.list, stock.symbol, stock.name, "TPEX"),
              count  |-> st.count + 1]

\* line 45: for stock in data, from quote i on
RECURSIVE QuoteLoop(_, _, _, _, _)
QuoteLoop(st, date, data, faults, i) ==
    IF i > Len(data) THEN st
    ELSE QuoteLoop(QuoteBody(st, date, data[i], faults[i]), date, data, faults, i + 1)

\* lines 26-73: update_single_date(date); fetched: what fetch_and_parse
\* gives, <<>> for None and <<data>> for a list of quotes
update_single_date(tables, date, fetched, faults) ==
    IF fetched = <<>> \/ Len(fetched[1]) = 0
    THEN [prices |-> tables.prices, list |-> tables.list, count |-> 0]
    ELSE QuoteLoop([prices |-> tables.prices, list |-> tables.list, count |-> 0],
                   date, fetched[1], faults, 1)

\* a call of update_single_date(date)
UpdateSingleDate(date, fetched, faults) ==
    \E r \in {update_single_date([prices |-> stock_prices, list |-> stock_list],
                                 date, fetched, faults)} :
        /\ stock_prices' = r.prices
        /\ stock_list' = r.list
        /\ ret' = [op |-> "update_single_date", date |-> date, fetched |-> fetched,
                   faults |-> faults, result |-> r.count]
        /\ UNCHANGED <<now, history, buttons, threads>>

\* the most quotes of a date
MaxQuotes == 2

\* the quotes a feed may hold: two codes, two names and two closes for the
\* first code
FeedQuotes ==
    {Quote(Code1, "A", 10), Quote(Code1, "B", 11), Quote(Code2, "C", 10)}

\* what the fetcher gives: None, or a list of up to MaxQuotes quotes
Fetches ==
    {<<>>} \cup {<<data>> : data \in UNION {[1..n -> FeedQuotes] : n \in 0..MaxQuotes}}

\* at most one quote of a date meets a failing store
FaultsFor(fetched) ==
    IF fetched = <<>> THEN {<<>>}
    ELSE {[i \in 1..Len(fetched[1]) |-> "none"]}
         \cup {[i \in 1..Len(fetched[1]) |-> IF i = bad THEN f ELSE "none"] :
                  bad \in 1..Len(fetched[1]), f \in QuoteFaults}

\* an empty store, or the store an earlier run left for the day before
InitTpex ==
    /\ \E earlier \in BOOLEAN :
          /\ stock_prices = IF earlier
                            THEN SetToBag({PriceRow(Code1, Day0 - 1, 11, "TPEX")})
                            ELSE EmptyBag
          /\ stock_list = IF earlier
                          THEN SetToBag({ListRow(Code1, "A", "TPEX", <<>>)})
                          ELSE EmptyBag
    /\ now = Dt(Day0, TRUE)
    /\ history = [s \in StockSymbols |-> {}]
    /\ ret = [op |-> "init"]
    /\ buttons = AllNormal
    /\ threads = EmptyBag

NextTpex ==
    \E fetched \in Fetches :
       \E faults \in FaultsFor(fetched) : UpdateSingleDate(now, fetched, faults)

SpecTpex == InitTpex /\ [][NextTpex]_vars

----------------------------------------------------------------------------
\* Properties of update_single_date

\* the quotes of a run whose insert_stock_prices and add_stock_to_list both
\* returned
Completed(r) ==
    {i \in 1..Len(r.fetched[1]) : r.faults[i] \in {"none", "insert_stock_prices"}}

\* the quotes of a run whose price row was written
Written(r) ==
    {i \in 1..Len(r.fetched[1]) : r.faults[i] \in {"none", "add_stock_to_list"}}

\* the fetch of a run gave nothing: None or an empty list
Nothing(r) == r.fetched = <<>> \/ r.fetched[1] = <<>>

C34_NothingKeepsStoreReached ==
    /\ ret.op = "update_single_date"
    /\ ret.fetched = <<>>
    /\ ret.result = 0
    /\ stock_prices # EmptyBag

\* a quote whose write was caught inside insert_stock_prices is counted:
\* the run returned 1 and the store holds no point
C34_CountedWithoutPointReached ==
    /\ ret.op = "update_single_date"
    /\ ~Nothing(ret)
    /\ ret.result = Len(ret.fetched[1])
    /\ stock_prices = EmptyBag
    /\ stock_list # EmptyBag

----------------------------------------------------------------------------
\* Properties of calculate_two_stocks_correlation on the store

\* the symbols of the records of a registry
RegistrySymbols(table) == {r.symbol : r \in DOMAIN table}

\* C35: a call of calculate_two_stocks_correlation with no updater attached,
\* or with both arguments resolved to symbols the store has points of,
\* leaves the price rows and the registry as they were, whether it returns
\* a result or raises; and no call adds a record to the registry.
C35_ReadOnlyUnlessOnDemand ==
    [][ret'.op = "calculate_two_stocks_correlation" =>
          \A full \in {<<FullSymbol1, FullSymbol2>>} :
             /\ (\/ ~ret'.updater
                 \/ /\ full[1] # <<>>
                    /\ full[2] # <<>>
                    /\ HasPoint(stock_prices, full[1])
                    /\ HasPoint(stock_prices, full[2]))
                => UNCHANGED <<stock_prices, stock_list>>
             /\ RegistrySymbols(stock_list') = RegistrySymbols(stock_list)
             /\ BagCardinality(stock_list') = BagCardinality(stock_list)]_vars

\* C35 witness: a call with an updater attached has fetched on demand the
\* points of a symbol that is not registered, and the registry holds the
\* one record it held
C35_Witness ==
    /\ ret.op = "calculate_two_stocks_correlation"
    /\ ret.updater
    /\ \E i \in DOMAIN ret.events : ret.events[i] = Attempted(Code1 \o TWO, TRUE)
    /\ HasPoint(stock_prices, Code1 \o TWO)
    /\ RegistrySymbols(stock_list) = {Code1 \o TW}
    /\ BagCardinality(stock_list) = 1

\* an on-demand update has set the last-update marker of the record of the
\* symbol it fetched: the registry changes, its records do not
C35_MarkerSetReached ==
    /\ ret.op = "calculate_two_stocks_correlation"
    /\ ret.updater
    /\ \E i \in DOMAIN ret.events : ret.events[i] = Attempted(Code1 \o TW, TRUE)
    /\ \E r \in DOMAIN stock_list : r.symbol = Code1 \o TW /\ r.last_update # <<>>
    /\ BagCardinality(stock_list) = 1

\* a call without an updater raised on a store that holds points of one
\* symbol only, and the store is as it was
C35_RaisedWithoutUpdaterReached ==
    /\ ret.op = "calculate_two_stocks_correlation"
    /\ ~ret.updater
    /\ ret.error # <<>>
    /\ HasPoint(stock_prices, Code1 \o TW)
    /\ ~HasPoint(stock_prices, Code1 \o TWO)

\* a call with an updater returned a result from points the store held, and
\* no update_stock was called
C35_CachedWithUpdaterReached ==
    /\ ret.op = "calculate_two_stocks_correlation"
    /\ ret.updater
    /\ ret.result # <<>>
    /\ Attempts(ret.events) = <<>>

====
